---------------------------- MODULE Spec2Model ----------------------------
(***************************************************************************)
(* Quiz generator (Quiz_current): sentence ranking, the four question      *)
(* synthesizers of question_generation.py and the run_pipeline.main        *)
(* orchestration.                                                          *)
(*                                                                         *)
(* Python strings are TLA+ strings; a character is a string of length 1.   *)
(* The NLTK calls (word_tokenize, pos_tag, sent_tokenize, the WordNet      *)
(* lemmatizer, the stop-word list) and the random module are libraries     *)
(* outside the repository: they are modelled by small deterministic        *)
(* stand-ins (a punctuation/clitic tokenizer, a lexicon tagger, a linear   *)
(* congruential generator) placed at the call sites of the source.         *)
(*                                                                         *)
(* A function of the source whose body is a sequence of assignments is     *)
(* written as a chain of operators, one per assignment: each operator      *)
(* receives the values computed so far as parameters and computes the next.*)
(***************************************************************************)
EXTENDS Integers, Sequences, FiniteSets, TLC

(***************************************************************************)
(* Python str primitives                                                   *)
(***************************************************************************)
LowerSeq == "abcdefghijklmnopqrstuvwxyz"
UpperSeq == "ABCDEFGHIJKLMNOPQRSTUVWXYZ"
DigitSeq == "0123456789"

Ch(s, i) == SubSeq(s, i, i)
CharSet(s) == {Ch(s, i) : i \in 1..Len(s)}

LowerChars == CharSet(LowerSeq)
UpperChars == CharSet(UpperSeq)
DigitChars == CharSet(DigitSeq)
SpaceChars == {" ", "\t", "\n"}

ToLowerMap == [c \in UpperChars |-> Ch(LowerSeq, CHOOSE i \in 1..26 : Ch(UpperSeq, i) = c)]
ToUpperMap == [c \in LowerChars |-> Ch(UpperSeq, CHOOSE i \in 1..26 : Ch(LowerSeq, i) = c)]

IsAlphaChar(c) == c \in LowerChars \/ c \in UpperChars
IsDigitChar(c) == c \in DigitChars
IsSpaceChar(c) == c \in SpaceChars
\* \w of the re module: letters, digits and the underscore
IsWordChar(c) == IsAlphaChar(c) \/ IsDigitChar(c) \/ c = "_"

LowerChar(c) == IF c \in UpperChars THEN ToLowerMap[c] ELSE c
UpperChar(c) == IF c \in LowerChars THEN ToUpperMap[c] ELSE c

\* the concatenation parts[lo] \o ... \o parts[hi], by halves
RECURSIVE CatRange(_, _, _)
CatRange(parts, lo, hi) ==
    IF lo > hi THEN ""
    ELSE IF lo = hi THEN parts[lo]
    ELSE CatRange(parts, lo, (lo + hi) \div 2) \o CatRange(parts, (lo + hi) \div 2 + 1, hi)

Cat(parts) == CatRange(parts, 1, Len(parts))

\* the same for sequences of sequences
RECURSIVE FlatRange(_, _, _)
FlatRange(parts, lo, hi) ==
    IF lo > hi THEN <<>>
    ELSE IF lo = hi THEN parts[lo]
    ELSE FlatRange(parts, lo, (lo + hi) \div 2) \o FlatRange(parts, (lo + hi) \div 2 + 1, hi)

Flat(parts) == FlatRange(parts, 1, Len(parts))

\* a sequence given by a function constructor, evaluated once
Materialize(f) == f \o <<>>

MinOf(S) == CHOOSE i \in S : \A j \in S : i <= j
MaxOf(S) == CHOOSE i \in S : \A j \in S : j <= i
MinOrZero(S) == IF S = {} THEN 0 ELSE MinOf(S)

\* the elements of a finite set of integers in ascending order
SortedSeq(S) ==
    Materialize([k \in 1..Cardinality(S) |-> CHOOSE x \in S : Cardinality({y \in S : y < x}) = k - 1])

Range(seq) == {seq[i] : i \in 1..Len(seq)}

\* str.lower()
Lower(s) == Cat([i \in 1..Len(s) |-> LowerChar(Ch(s, i))])

\* str.isalpha(): non-empty and every character a letter
IsAlpha(s) == Len(s) > 0 /\ \A i \in 1..Len(s) : IsAlphaChar(Ch(s, i))

\* the first position from i rightwards (last from i leftwards) not in cs
RECURSIVE SkipLeft(_, _, _)
SkipLeft(s, cs, i) ==
    IF i > Len(s) THEN i ELSE IF Ch(s, i) \in cs THEN SkipLeft(s, cs, i + 1) ELSE i

RECURSIVE SkipRight(_, _, _)
SkipRight(s, cs, i) ==
    IF i < 1 THEN i ELSE IF Ch(s, i) \in cs THEN SkipRight(s, cs, i - 1) ELSE i

\* str.strip(chars): drop leading and trailing characters of the set
StripSet(s, cs) == SubSeq(s, SkipLeft(s, cs, 1), SkipRight(s, cs, Len(s)))

\* str.strip()
Strip(s) == StripSet(s, SpaceChars)

\* str.startswith(p)
StartsWith(s, p) == Len(s) >= Len(p) /\ SubSeq(s, 1, Len(p)) = p

\* str.endswith(p)
EndsWith(s, p) == Len(s) >= Len(p) /\ SubSeq(s, Len(s) - Len(p) + 1, Len(s)) = p

\* str.split(): the maximal runs of non-whitespace characters
WordStarts(s) == {i \in 1..Len(s) : ~IsSpaceChar(Ch(s, i)) /\ (i = 1 \/ IsSpaceChar(Ch(s, i - 1)))}
WordEnds(s) == {i \in 1..Len(s) : ~IsSpaceChar(Ch(s, i)) /\ (i = Len(s) \/ IsSpaceChar(Ch(s, i + 1)))}
Slices(s, a, b) == Materialize([k \in 1..Len(a) |-> SubSeq(s, a[k], b[k])])
Split(s) == Slices(s, SortedSeq(WordStarts(s)), SortedSeq(WordEnds(s)))

\* len(s.split())
WordCount(s) == Cardinality(WordStarts(s))

\* sep.join(parts)
Join(parts, sep) ==
    Cat([i \in 1..Len(parts) |-> IF i < Len(parts) THEN parts[i] \o sep ELSE parts[i]])

\* b.index(a): the first index at which a occurs in b, 0 if none
FindSub(a, b) == MinOrZero({i \in 1..(Len(b) - Len(a) + 1) : SubSeq(b, i, i + Len(a) - 1) = a})

\* a in b
Contains(a, b) == a = "" \/ \E i \in 1..(Len(b) - Len(a) + 1) : SubSeq(b, i, i + Len(a) - 1) = a

\* re.sub(r'\s+', ' ', s): every maximal whitespace run becomes one space
CollapseSpaces(s) ==
    Cat([i \in 1..Len(s) |->
           IF ~IsSpaceChar(Ch(s, i)) THEN Ch(s, i)
           ELSE IF i > 1 /\ IsSpaceChar(Ch(s, i - 1)) THEN "" ELSE " "])

normalize_sentence(s) == Strip(CollapseSpaces(s))

\* the index of the first letter of s, 0 if it has none
FirstAlpha(s) == MinOrZero({i \in 1..Len(s) : IsAlphaChar(Ch(s, i))})

\* s[:i] + f(s[i]) + s[i+1:] for the upper- and the lower-casing of one character
UpperAt(s, i) == IF i = 0 THEN s ELSE SubSeq(s, 1, i - 1) \o UpperChar(Ch(s, i)) \o SubSeq(s, i + 1, Len(s))
LowerAt(s, i) == IF i = 0 THEN s ELSE SubSeq(s, 1, i - 1) \o LowerChar(Ch(s, i)) \o SubSeq(s, i + 1, Len(s))

CapitalizeStripped(s) == UpperAt(s, FirstAlpha(s))

capitalize_first(s0) == IF s0 = "" THEN s0 ELSE CapitalizeStripped(Strip(s0))

(***************************************************************************)
(* re: \b<term>\b with IGNORECASE                                          *)
(***************************************************************************)
\* \b at the gap before position p (1..Len+1): exactly one side is a word character
Boundary(s, p) ==
    (p > 1 /\ IsWordChar(Ch(s, p - 1))) # (p <= Len(s) /\ IsWordChar(Ch(s, p)))

\* the starts of the matches of \bt\b in s, ls the lower-cased s and t lower-cased
WordHits(t, ls, s) ==
    {i \in 1..(Len(s) - Len(t) + 1) :
        /\ SubSeq(ls, i, i + Len(t) - 1) = t
        /\ Boundary(s, i)
        /\ Boundary(s, i + Len(t))}

\* re.search(r"\b" + re.escape(term) + r"\b", s, IGNORECASE): start of the first match, 0 if none
SearchWord(term, s) == MinOrZero(WordHits(Lower(term), Lower(s), s))

\* s with the n characters at i replaced, s itself when i = 0
ReplaceAt(s, i, n, repl) ==
    IF i = 0 THEN s ELSE SubSeq(s, 1, i - 1) \o repl \o SubSeq(s, i + n, Len(s))

\* re.sub(pattern, repl, s, count=1, IGNORECASE) for the pattern above
SubWordOnce(term, repl, s) == ReplaceAt(s, SearchWord(term, s), Len(term), repl)

NoneStr == "<None>"

MaskAt(sentence, i, n) == IF i = 0 THEN NoneStr ELSE ReplaceAt(sentence, i, n, "_____")

\* the masking without the \b anchors: the first occurrence as a substring
MaskSubstring(sentence, answer) == MaskAt(sentence, FindSub(Lower(answer), Lower(sentence)), Len(answer))

mask_answer_in_sentence(sentence, answer) == MaskAt(sentence, SearchWord(answer, sentence), Len(answer))

(***************************************************************************)
(* NLTK stand-ins used by question_generation.py and preprocessing.py      *)
(***************************************************************************)
PunctChars == {",", ";", ":", "!", "?", "(", ")", "\""}
Clitics == {"'s", "'re", "'ve", "'ll", "'d", "'m", "n't"}

\* no word character follows position i
EndsToken(s, i) == i >= Len(s) \/ ~IsWordChar(Ch(s, i + 1))

\* a clitic ("'s", "n't", ...) starts at position i, after a letter, and ends a token
CliticAt(s, i) ==
    /\ i > 1
    /\ IsAlphaChar(Ch(s, i - 1))
    /\ \E c \in Clitics : /\ i + Len(c) - 1 <= Len(s)
                          /\ SubSeq(s, i, i + Len(c) - 1) = c
                          /\ EndsToken(s, i + Len(c) - 1)

\* the Treebank tokenizer pads punctuation, sentence-final periods and
\* clitics with spaces and then splits on whitespace
PadChar(s, i, c) ==
    IF c \in PunctChars THEN " " \o c \o " "
    ELSE IF c = "." /\ (i = Len(s) \/ IsSpaceChar(Ch(s, i + 1))) THEN " . "
    ELSE IF CliticAt(s, i) THEN " " \o c
    ELSE c

Padded(s) == Cat([i \in 1..Len(s) |-> PadChar(s, i, Ch(s, i))])

word_tokenize(s) == Split(Padded(s))

\* the tagger's lexicon (lower-cased word |-> Penn Treebank tag)
LexNN == {"mitochondria", "powerhouse", "cell", "sunlight", "water", "sugar", "wall",
          "membrane", "planet", "need", "today", "nucleus", "material", "energy",
          "section", "diagram", "code", "sample", "system", "data", "light", "leaf",
          "root", "stem", "soil", "plant", "mitochondrion"}
LexNNS == {"plants", "cells", "roots", "leaves"}
LexVB == {"use", "convert", "divide", "survive", "produce", "refer", "absorb", "grow"}
LexVBZ == {"is", "protects", "covers", "stores", "makes", "needs", "uses", "absorbs"}
LexVBD == {"ran", "sat"}
LexOther == [w \in {"the", "a", "an", "this"} |-> "DT"] @@
            [w \in {"of", "into", "by", "for", "in", "from", "on"} |-> "IN"] @@
            [w \in {"and", "but", "or"} |-> "CC"] @@
            [w \in {"he", "she", "it", "we", "you"} |-> "PRP"] @@
            [w \in {"green", "big", "red", "old", "blue", "genetic", "most"} |-> "JJ"] @@
            [w \in {"down", "here", "then", "now", "n't", "not", "never"} |-> "RB"] @@
            [w \in {"one", "two"} |-> "CD"] @@
            [w \in {"to"} |-> "TO"] @@
            [w \in {"'s"} |-> "POS"]

\* pos_tag of one token w with lower-cased form l: the lexicon, then the shape
\* of the token; an unknown word is tagged as a noun, as the perceptron tagger tends to
TagLower(w, l) ==
    IF l \in LexNN THEN "NN"
    ELSE IF l \in LexNNS THEN "NNS"
    ELSE IF l \in LexVB THEN "VB"
    ELSE IF l \in LexVBZ THEN "VBZ"
    ELSE IF l \in LexVBD THEN "VBD"
    ELSE IF l \in DOMAIN LexOther THEN LexOther[l]
    ELSE IF \E i \in 1..Len(w) : IsDigitChar(Ch(w, i)) THEN "CD"
    ELSE IF IsAlpha(w) THEN "NN"
    ELSE "."

TagOf(w) == TagLower(w, Lower(w))

pos_tag(words) == Materialize([i \in 1..Len(words) |-> [w |-> words[i], t |-> TagOf(words[i])]])

(***************************************************************************)
(* random: a linear congruential generator stands for the Mersenne         *)
(* Twister; the generator state is the only source of randomness           *)
(***************************************************************************)
RngNext(x) == (75 * x + 74) % 65537

\* random.seed(a)
RngSeed(a) == a % 65537

\* _randbelow(n): a value in 0..n-1 and the next generator state
RandBelow(x, n) == [v |-> (RngNext(x) \div 8) % n, rng |-> RngNext(x)]

\* random.random() < 0.7
RandomBelow07(x) == [v |-> ((RngNext(x) \div 8) % 10) < 7, rng |-> RngNext(x)]

\* random.choice(seq)
Choice(x, seq) == [v |-> seq[RandBelow(x, Len(seq)).v + 1], rng |-> RngNext(x)]

\* random.sample(population, k), the pool branch (len(population) <= 21):
\* j = randbelow(n - i); result[i] = pool[j]; pool[j] = pool[n - i - 1]
RECURSIVE SampleFrom(_, _, _, _, _)
SamplePrepend(head, rest) == [v |-> <<head>> \o rest.v, rng |-> rest.rng]
SampleTake(x, pool, n, k, i, j) ==
    SamplePrepend(pool[j], SampleFrom(RngNext(x), [pool EXCEPT ![j] = pool[n - i]], n, k, i + 1))
SampleFrom(x, pool, n, k, i) ==
    IF i >= k THEN [v |-> <<>>, rng |-> x]
    ELSE SampleTake(x, pool, n, k, i, RandBelow(x, n - i).v + 1)

Sample(x, population, k) == SampleFrom(x, population, Len(population), k, 0)

\* random.shuffle(x): for i in reversed(range(1, len(x))): j = randbelow(i + 1); swap
RECURSIVE ShuffleFrom(_, _, _)
ShuffleSwap(x, seq, i, j) ==
    ShuffleFrom(RngNext(x), [seq EXCEPT ![i + 1] = seq[j + 1], ![j + 1] = seq[i + 1]], i - 1)
ShuffleFrom(x, seq, i) ==
    IF i < 1 THEN [v |-> seq, rng |-> x]
    ELSE ShuffleSwap(x, seq, i, RandBelow(x, i + 1).v)

Shuffle(x, seq) == ShuffleFrom(x, seq, Len(seq) - 1)

(***************************************************************************)
(* question_generation.py                                                  *)
(*                                                                         *)
(* A synthesizer takes the sentence list and the process state g = [rng,   *)
(* cache] (the shared generator and _pos_cache) and returns its items and  *)
(* the state it leaves.  An item carries, besides the fields of the        *)
(* source's dict, the normalized sentence it was made from (src) and, for  *)
(* True/False, whether the sentence was selected for negation (neg).       *)
(***************************************************************************)
COMMON_EXCLUDES == {"thing", "something", "anything", "everything", "nothing",
                    "time", "people", "way", "kind", "part", "place", "work",
                    "system", "process", "example", "method", "data", "information"}

\* a loop iteration that appends nothing
NoItems(g) == [items |-> <<>>, g |-> g]

\* the items of one iteration followed by those of the remaining iterations
Prepend(items, rest) == [items |-> items \o rest.items, g |-> rest.g]

\* the (words, tagged) pair of a sentence; tagging is a pure function of the text
TaggedOf(sentence) == pos_tag(word_tokenize(sentence))

\* get_pos_tags: the cache gains the sentence as a key
get_pos_tags(sentence, g) == [tagged |-> TaggedOf(sentence), g |-> [g EXCEPT !.cache = @ \cup {sentence}]]

IsNounTag(tg) == StartsWith(tg, "NN")
IsVerbTag(tg) == StartsWith(tg, "VB")

WordsOf(tagged) == Materialize([i \in 1..Len(tagged) |-> tagged[i].w])

\* the candidate list of select_key_noun
IsKeyNoun(e) == IsNounTag(e.t) /\ IsAlpha(e.w) /\ Len(e.w) >= 4
NotExcluded(e) == Lower(e.w) \notin COMMON_EXCLUDES
KeyNounCandidates(tagged) == WordsOf(SelectSeq(SelectSeq(tagged, IsKeyNoun), NotExcluded))

\* a selector that always takes the first candidate
FirstOrNone(candidates, x) ==
    IF candidates = <<>> THEN [v |-> NoneStr, rng |-> x] ELSE [v |-> candidates[1], rng |-> x]

ChoiceOrNone(candidates, x) ==
    IF candidates = <<>> THEN [v |-> NoneStr, rng |-> x] ELSE Choice(x, candidates)

select_key_noun(tagged, x) == ChoiceOrNone(KeyNounCandidates(tagged), x)

\* the distractor pool without the comparison with the answer
OtherNounsUnfiltered(tagged, answer) ==
    LET Ok(e) == IsNounTag(e.t) /\ IsAlpha(e.w) /\ Len(e.w) >= 4
    IN  WordsOf(SelectSeq(tagged, Ok))

\* the distractor pool of generate_mcq
OtherNouns(tagged, answer) ==
    LET Ok(e) == /\ IsNounTag(e.t)
                 /\ Lower(e.w) # Lower(answer)
                 /\ IsAlpha(e.w)
                 /\ Len(e.w) >= 4
    IN  WordsOf(SelectSeq(tagged, Ok))

MapCapitalize(opts) == Materialize([i \in 1..Len(opts) |-> capitalize_first(opts[i])])

\* one iteration of the loop of generate_mcq, statement by statement
McqItem(s, tg, answer, q_text, shuf) ==
    [items |-> << [type |-> "MCQ",
                   question |-> capitalize_first(q_text),
                   options |-> MapCapitalize(shuf.v),
                   answer |-> capitalize_first(answer),
                   src |-> s, neg |-> FALSE] >>,
     g |-> [tg.g EXCEPT !.rng = shuf.rng]]

McqOptions(s, tg, answer, q_text, sam) ==
    McqItem(s, tg, answer, q_text, Shuffle(sam.rng, <<answer>> \o sam.v))

\* a generate_mcq that makes do with two distractors
McqDistractorsFromTwo(s, tg, pick, q_text, other_nouns) ==
    IF Len(other_nouns) < 2 THEN NoItems([tg.g EXCEPT !.rng = pick.rng])
    ELSE McqOptions(s, tg, pick.v, q_text, Sample(pick.rng, other_nouns, IF Len(other_nouns) < 3 THEN 2 ELSE 3))

McqDistractors(s, tg, pick, q_text, other_nouns) ==
    IF Len(other_nouns) < 3 THEN NoItems([tg.g EXCEPT !.rng = pick.rng])
    ELSE McqOptions(s, tg, pick.v, q_text, Sample(pick.rng, other_nouns, 3))

McqMasked(s, tg, pick, q_text) ==
    IF q_text = NoneStr THEN NoItems([tg.g EXCEPT !.rng = pick.rng])
    ELSE McqDistractors(s, tg, pick, q_text, OtherNouns(tg.tagged, pick.v))

McqAnswer(s, tg, pick) ==
    IF pick.v = NoneStr THEN NoItems([tg.g EXCEPT !.rng = pick.rng])
    ELSE McqMasked(s, tg, pick, mask_answer_in_sentence(s, pick.v))

McqTagged(s, tg) == McqAnswer(s, tg, select_key_noun(tg.tagged, tg.g.rng))

McqNormalized(s, g) == McqTagged(s, get_pos_tags(s, g))

McqStep(raw, g) == McqNormalized(normalize_sentence(raw), g)

RECURSIVE McqFrom(_, _, _)
McqNext(sentences, i, one) == Prepend(one.items, McqFrom(sentences, i + 1, one.g))
McqFrom(sentences, i, g) ==
    IF i > Len(sentences) THEN NoItems(g) ELSE McqNext(sentences, i, McqStep(sentences[i], g))

generate_mcq(sentences, g) == McqFrom(sentences, 1, g)

ElemOr(seq, i, default) == IF i = 0 THEN default ELSE seq[i]

\* "Find original case of answer": the first token equal to ans up to case
OriginalCase(words, ans) ==
    ElemOr(words, MinOrZero({i \in 1..Len(words) : Lower(words[i]) = Lower(ans)}), ans)

\* "Handle blank at start" of generate_fill
FillLowered(q, after_blank, i) == IF i = 0 THEN q ELSE "_____" \o LowerAt(after_blank, i)

\* a blank at the start that swallows the character after it
FillAfterBlankOffByOne(q, after_blank) ==
    FillLowered(q, SubSeq(after_blank, 2, Len(after_blank)),
                FirstAlpha(SubSeq(after_blank, 2, Len(after_blank))))

FillAfterBlank(q, after_blank) == FillLowered(q, after_blank, FirstAlpha(after_blank))

FillTrimmed(q, q_trimmed) ==
    IF StartsWith(q_trimmed, "_____") THEN FillAfterBlank(q, SubSeq(q_trimmed, 6, Len(q_trimmed)))
    ELSE capitalize_first(q)

FillQuestion(q) == FillTrimmed(q, Strip(q))

\* one iteration of the loop of generate_fill
FillMasked(s, tg, pick, q) ==
    IF q = NoneStr THEN NoItems([tg.g EXCEPT !.rng = pick.rng])
    ELSE [items |-> << [type |-> "Fill-in-the-Blank",
                        question |-> FillQuestion(q),
                        options |-> <<>>,
                        answer |-> OriginalCase(WordsOf(tg.tagged), pick.v),
                        src |-> s, neg |-> FALSE] >>,
          g |-> [tg.g EXCEPT !.rng = pick.rng]]

FillAnswer(s, tg, pick) ==
    IF pick.v = NoneStr THEN NoItems([tg.g EXCEPT !.rng = pick.rng])
    ELSE FillMasked(s, tg, pick, mask_answer_in_sentence(s, pick.v))

FillTagged(s, tg) == FillAnswer(s, tg, select_key_noun(tg.tagged, tg.g.rng))

FillNormalized(s, g) == FillTagged(s, get_pos_tags(s, g))

FillStep(raw, g) == FillNormalized(normalize_sentence(raw), g)

RECURSIVE FillFrom(_, _, _)
\* a loop that ends at the first sentence that gave no item
FillNextStopAtSkip(sentences, i, one) ==
    IF one.items = <<>> THEN one ELSE Prepend(one.items, FillFrom(sentences, i + 1, one.g))
FillNext(sentences, i, one) == Prepend(one.items, FillFrom(sentences, i + 1, one.g))
FillFrom(sentences, i, g) ==
    IF i > Len(sentences) THEN NoItems(g) ELSE FillNext(sentences, i, FillStep(sentences[i], g))

generate_fill(sentences, g) == FillFrom(sentences, 1, g)

FALSE_NOUNS == <<"X", "Y", "Z", "placeholder", "alternative", "substitute">>

\* the indices (1-based) of the verb-tagged tokens, ascending
VerbIndices(tagged) == SortedSeq({i \in 1..Len(tagged) : IsVerbTag(tagged[i].t)})

\* the noun list of "Strategy 2" (no isalpha test there)
IsLongNoun(e) == IsNounTag(e.t) /\ Len(e.w) > 3
LongNouns(tagged) == WordsOf(SelectSeq(tagged, IsLongNoun))

\* [n for n in FALSE_NOUNS if n.lower() != to_replace.lower()]
Replacements(to_replace) ==
    LET NotSame(n) == Lower(n) # Lower(to_replace)
    IN  SelectSeq(FALSE_NOUNS, NotSame)

\* the loop body without the "continue"
KeepUnchanged(make_false, q_text, s) == FALSE

\* "if make_false and q_text == s: continue"
DropUnchanged(make_false, q_text, s) == make_false /\ q_text = s

\* the end of the loop body of generate_true_false
TfItem(s, make_false, q_text, answer_tf, g) ==
    IF DropUnchanged(make_false, q_text, s) THEN NoItems(g)
    ELSE [items |-> << [type |-> "True/False",
                        question |-> "True or False: " \o capitalize_first(q_text),
                        options |-> <<>>,
                        answer |-> answer_tf,
                        src |-> s, neg |-> make_false] >>,
          g |-> g]

\* Strategy 2: replace a noun
TfReplaced(s, tg, to_replace, replacement) ==
    TfItem(s, TRUE, SubWordOnce(to_replace, replacement.v, s), "False",
           [tg.g EXCEPT !.rng = replacement.rng])

TfReplace(s, tg, to_replace) ==
    TfReplaced(s, tg, to_replace.v, Choice(to_replace.rng, Replacements(to_replace.v)))

TfNouns(s, tg, x, nouns) ==
    IF nouns = <<>> THEN TfItem(s, TRUE, s, "True", [tg.g EXCEPT !.rng = x])
    ELSE TfReplace(s, tg, Choice(x, nouns))

TfNoun(s, tg, x) == TfNouns(s, tg, x, LongNouns(tg.tagged))

\* Strategy 1: "not"/"never" right after the first verb
TfVerb(s, tg, words, verb_idx, negation) ==
    TfItem(s, TRUE,
           Join(SubSeq(words, 1, verb_idx) \o <<negation.v>> \o SubSeq(words, verb_idx + 1, Len(words)), " "),
           "False", [tg.g EXCEPT !.rng = negation.rng])

TfCoin(s, tg, verbs, coin) ==
    IF coin.v THEN TfVerb(s, tg, WordsOf(tg.tagged), verbs[1], Choice(coin.rng, <<"not", "never">>))
    ELSE TfNoun(s, tg, coin.rng)

\* "if verbs and random.random() < 0.7": the generator is drawn from only when there is a verb
TfStrategy(s, tg, verbs) ==
    IF verbs # <<>> THEN TfCoin(s, tg, verbs, RandomBelow07(tg.g.rng))
    ELSE TfNoun(s, tg, tg.g.rng)

TfNegate(s, tg) == TfStrategy(s, tg, VerbIndices(tg.tagged))

\* the body of the loop of generate_true_false for one valid sentence
TfStep(s, make_false, g) ==
    IF make_false THEN TfNegate(s, get_pos_tags(s, g))
    ELSE TfItem(s, FALSE, s, "True", g)

RECURSIVE TfFrom(_, _, _, _)
TfNext(valid, idx, false_indices, one) ==
    Prepend(one.items, TfFrom(valid, idx + 1, false_indices, one.g))
TfFrom(valid, idx, false_indices, g) ==
    IF idx > Len(valid) THEN NoItems(g)
    ELSE TfNext(valid, idx, false_indices, TfStep(valid[idx], (idx - 1) \in false_indices, g))

\* valid_sentences of generate_true_false
MoreThan6Words(s) == WordCount(s) > 6
NormalizeAll(kept) == Materialize([i \in 1..Len(kept) |-> normalize_sentence(kept[i])])
ValidTF(sentences) == NormalizeAll(SelectSeq(sentences, MoreThan6Words))

\* false_indices with the half rounded up
FalseIndicesRoundedUp(n, x) == Sample(x, [i \in 1..n |-> i - 1], (n + 1) \div 2)

\* false_indices: random.sample(range(n), n // 2)
FalseIndices(n, x) == Sample(x, [i \in 1..n |-> i - 1], n \div 2)

TfSampled(valid, fi, g) == TfFrom(valid, 1, Range(fi.v), [g EXCEPT !.rng = fi.rng])

TfValid(valid, g) ==
    IF valid = <<>> THEN NoItems(g) ELSE TfSampled(valid, FalseIndices(Len(valid), g.rng), g)

generate_true_false(sentences, g) == TfValid(ValidTF(sentences), g)

\* the number of leading digits of s
LeadingDigits(s) == SkipLeft(s, DigitChars, 1) - 1

\* ^\d+\. matches s, d the number of leading digits
HasNumberPrefix(s, d) == d >= 1 /\ d < Len(s) /\ Ch(s, d + 1) = "."

\* re.match(r"^\d+\.|[A-Za-z]{2,4}\d{2,}", s): both alternatives are tried at position 0 only
MatchesMarkerOrCode(s) ==
    \/ HasNumberPrefix(s, LeadingDigits(s))
    \/ \E k \in 2..4 :
         /\ k + 2 <= Len(s)
         /\ \A i \in 1..k : IsAlphaChar(Ch(s, i))
         /\ IsDigitChar(Ch(s, k + 1)) /\ IsDigitChar(Ch(s, k + 2))

\* NUMBER_PREFIX_PATTERN.sub("", s): drop a leading "<digits>." and the whitespace after it
DropPrefixAt(s, d) ==
    IF HasNumberPrefix(s, d) THEN SubSeq(s, SkipLeft(s, SpaceChars, d + 2), Len(s)) ELSE s

DropNumberPrefix(s) == DropPrefixAt(s, LeadingDigits(s))

\* every match of length n that starts at a position of hits is wrapped in asterisks
HighlightAt(text, n, hits) ==
    Cat([i \in 1..Len(text) |->
           (IF i \in hits THEN "*" ELSE "") \o Ch(text, i)
             \o (IF i - n + 1 \in hits THEN "*" ELSE "")])

\* highlight(word, text)
highlight(word, text) == HighlightAt(text, Len(word), WordHits(Lower(word), Lower(text), text))

QuestionTemplates(answer) ==
    << "What does '" \o answer \o "' mean in the following context?",
       "Explain the term '" \o answer \o "' as used here.",
       "What is meant by '" \o answer \o "' in this sentence?" >>

\* one iteration of the loop of generate_short_answers
ShortItem(s, context_phrase, answer, prompt, answer_text, g) ==
    IF Lower(Strip(answer_text)) = Lower(Strip(answer)) \/ WordCount(answer_text) < 5
    THEN NoItems(g)
    ELSE [items |-> << [type |-> "Short Answer",
                        question |-> prompt \o "\nContext: " \o context_phrase,
                        options |-> <<>>,
                        answer |-> capitalize_first(answer_text),
                        src |-> s, neg |-> FALSE] >>,
          g |-> g]

ShortPrompt(s, s_clean, tg, answer, prompt) ==
    ShortItem(s, s_clean, answer, prompt.v, highlight(answer, s_clean), [tg.g EXCEPT !.rng = prompt.rng])

ShortAnswer(s, s_clean, tg, pick) ==
    IF pick.v = NoneStr \/ ~Contains(Lower(pick.v), Lower(s_clean))
    THEN NoItems([tg.g EXCEPT !.rng = pick.rng])
    ELSE ShortPrompt(s, s_clean, tg, pick.v, Choice(pick.rng, QuestionTemplates(pick.v)))

ShortTagged(s, s_clean, tg) == ShortAnswer(s, s_clean, tg, select_key_noun(tg.tagged, tg.g.rng))

ShortClean(s, s_clean, g) == ShortTagged(s, s_clean, get_pos_tags(s_clean, g))

ShortCounted(s, word_count, g) ==
    IF word_count < 6 \/ word_count > 30 THEN NoItems(g)
    ELSE IF MatchesMarkerOrCode(s) THEN NoItems(g)
    ELSE ShortClean(s, StripSet(DropNumberPrefix(s), {" ", "."}), g)

ShortNormalized(s, g) == ShortCounted(s, WordCount(s), g)

ShortStep(raw, g) == ShortNormalized(normalize_sentence(raw), g)

RECURSIVE ShortFrom(_, _, _)
ShortNext(sentences, i, one) == Prepend(one.items, ShortFrom(sentences, i + 1, one.g))
ShortFrom(sentences, i, g) ==
    IF i > Len(sentences) THEN NoItems(g) ELSE ShortNext(sentences, i, ShortStep(sentences[i], g))

generate_short_answers(sentences, g) == ShortFrom(sentences, 1, g)

\* a clear_cache that leaves the entries in place
clear_cacheKept(g) == g

\* clear_cache()
clear_cache(g) == [g EXCEPT !.cache = {}]

(***************************************************************************)
(* os.environ                                                              *)
(***************************************************************************)
EnvNames == {"QUESTION_TYPE", "RANK_METHOD", "TOP_SENTENCES", "BATCH_SIZE", "SMART_SELECTION"}

\* os.getenv(name, default); an unset variable holds NoneStr
Getenv(e, name, default) == IF e[name] = NoneStr THEN default ELSE e[name]

\* os.environ.setdefault(name, value)
Setdefault(e, name, value) == IF e[name] = NoneStr THEN [e EXCEPT ![name] = value] ELSE e

(***************************************************************************)
(* preprocessing.py                                                        *)
(***************************************************************************)
Max2(a, b) == IF a > b THEN a ELSE b
Min2(a, b) == IF a < b THEN a ELSE b

RECURSIVE SumRange(_, _, _)
SumRange(f, lo, hi) ==
    IF lo > hi THEN 0
    ELSE IF lo = hi THEN f[lo]
    ELSE SumRange(f, lo, (lo + hi) \div 2) + SumRange(f, (lo + hi) \div 2 + 1, hi)

SumSeq(f) == SumRange(f, 1, Len(f))

\* the elements of seq at the positions listed in o
PickAll(seq, o) == Materialize([k \in 1..Len(o) |-> seq[o[k]]])

\* the elements of seq at the given set of indices, in ascending index order
AtIndices(seq, idx) == PickAll(seq, SortedSeq(idx))

NonBlank(s) == s # ""
MoreThan4Words(s) == WordCount(s) > 4

\* sent_tokenize stand-in: a sentence ends at ".", "!" or "?" followed by
\* whitespace or the end of the text; a remainder without a terminator is a
\* sentence too
SentenceEnds(text) ==
    {i \in 1..Len(text) : /\ Ch(text, i) \in {".", "!", "?"}
                          /\ (i = Len(text) \/ IsSpaceChar(Ch(text, i + 1)))}

\* the k-th piece of text cut at the ascending positions e; the last piece is the remainder
Piece(text, e, k, keepCut) ==
    IF k <= Len(e)
    THEN SubSeq(text, (IF k = 1 THEN 1 ELSE e[k - 1] + 1), (IF keepCut THEN e[k] ELSE e[k] - 1))
    ELSE SubSeq(text, (IF Len(e) = 0 THEN 1 ELSE e[Len(e)] + 1), Len(text))

PiecesOf(text, e, keepCut) ==
    SelectSeq(Materialize([k \in 1..(Len(e) + 1) |-> Strip(Piece(text, e, k, keepCut))]), NonBlank)

\* the pieces of text that end at the given cut positions (plus the remainder), stripped, blanks dropped
PiecesAt(text, cuts, keepCut) == PiecesOf(text, SortedSeq(cuts), keepCut)

sent_tokenize(text) == PiecesAt(text, SentenceEnds(text), TRUE)

\* re.split(r'[.;:\n]', text), stripped
SplitOnMarks(text) ==
    PiecesAt(text, {i \in 1..Len(text) : Ch(text, i) \in {".", ";", ":", "\n"}}, FALSE)

\* WordNetLemmatizer().lemmatize(w) stand-in (noun lemmas): a few irregular
\* forms, and a plural "s" dropped when the stem is a known noun
LemmaIrregular == [w \in {"mitochondria"} |-> "mitochondrion"] @@
                  [w \in {"leaves"} |-> "leaf"] @@
                  [w \in {"was"} |-> "wa"] @@
                  [w \in {"has"} |-> "ha"]

lemmatize(w) ==
    IF w \in DOMAIN LemmaIrregular THEN LemmaIrregular[w]
    ELSE IF Len(w) > 3 /\ EndsWith(w, "s") /\ SubSeq(w, 1, Len(w) - 1) \in LexNN
         THEN SubSeq(w, 1, Len(w) - 1)
    ELSE w

\* stopwords.words('english'), the part the corpus touches
StopWords == {"the", "a", "an", "is", "are", "was", "has", "of", "and", "but", "or", "to",
              "in", "on", "into", "by", "for", "from", "it", "he", "she", "we", "you",
              "this", "most", "then", "here", "down", "now", "not", "s", "t"}

\* re.sub(r'\n+', ' ', raw_text)
CleanNewlines(s) ==
    Cat([i \in 1..Len(s) |->
           IF Ch(s, i) # "\n" THEN Ch(s, i)
           ELSE IF i > 1 /\ Ch(s, i - 1) = "\n" THEN "" ELSE " "])

\* the last index of the digits of a match of Page\s*\d+, j the first position after the whitespace
PageDigitsEnd(s, j) ==
    IF j > Len(s) \/ ~IsDigitChar(Ch(s, j)) THEN 0 ELSE SkipLeft(s, DigitChars, j) - 1

\* the last index of a match of Page\s*\d+ that starts at a, 0 if none starts there
PageMatchEnd(s, a) ==
    IF a + 3 > Len(s) \/ SubSeq(s, a, a + 3) # "Page" THEN 0
    ELSE PageDigitsEnd(s, SkipLeft(s, SpaceChars, a + 4))

DropCovered(s, starts) ==
    IF starts = {} THEN s
    ELSE Cat([i \in 1..Len(s) |->
                IF \E a \in starts : a <= i /\ i <= PageMatchEnd(s, a) THEN "" ELSE Ch(s, i)])

\* re.sub(r'Page\s*\d+', '', text)
RemovePageMarks(s) == DropCovered(s, {a \in 1..Len(s) : PageMatchEnd(s, a) > 0})

AllowedChars == LowerChars \cup UpperChars \cup DigitChars \cup SpaceChars
                  \cup {".", ",", "!", "?", ";", ":", "'", "\"", "(", ")", "-"}

\* re.sub(r"[^a-zA-Z0-9.,!?;:'\"()\-\s]", '', text)
KeepAllowed(s) == Cat([i \in 1..Len(s) |-> IF Ch(s, i) \in AllowedChars THEN Ch(s, i) ELSE ""])

\* the cleaning steps at the top of preprocess_text
CleanText(raw_text) ==
    Lower(KeepAllowed(Strip(CollapseSpaces(RemovePageMarks(CleanNewlines(raw_text))))))

\* "Fallback segmentation" when sent_tokenize leaves no sentence of more than 4 words
SentencesOr(viaNltk, text) ==
    IF Len(viaNltk) = 0 THEN SelectSeq(SplitOnMarks(text), MoreThan4Words) ELSE viaNltk

LongSentences(text) == SentencesOr(SelectSeq(sent_tokenize(text), MoreThan4Words), text)

LemmatizeAll(words) == Materialize([i \in 1..Len(words) |-> lemmatize(words[i])])

LemmatizeSentence(s) == Join(LemmatizeAll(word_tokenize(s)), " ")

LemmatizeEach(sentences) == Materialize([i \in 1..Len(sentences) |-> LemmatizeSentence(sentences[i])])

LemmatizedSentences(text) == LemmatizeEach(LongSentences(text))

\* a target_count without the upper limit of 25
TargetCountUncapped(total) == Max2(5, Max2(1, total) \div 5)

\* a target_count that is never below 10
TargetCountFloorTen(total) == Max2(10, Min2(Max2(1, total) \div 5, 25))

\* target_count of rank_sentences: max(5, min(max(1, total) // 5, 25))
TargetCount(total) == Max2(5, Min2(Max2(1, total) \div 5, 25))

\* round(10000 * ln k) for k = 1..60: math.log in the idf of the tfidf branch
LnTable == << 0, 6931, 10986, 13863, 16094, 17918, 19459, 20794, 21972, 23026,
              23979, 24849, 25649, 26391, 27081, 27726, 28332, 28904, 29444, 29957,
              30445, 30910, 31355, 31781, 32189, 32581, 32958, 33322, 33673, 34012,
              34340, 34657, 34965, 35264, 35553, 35835, 36109, 36376, 36636, 36889,
              37136, 37377, 37612, 37842, 38067, 38286, 38501, 38712, 38918, 39120,
              39318, 39512, 39703, 39890, 40073, 40254, 40431, 40604, 40775, 40943 >>

\* the tfidf branch of rank_sentences: the eligible sentences
TfidfSentences(raw_text) == SelectSeq(sent_tokenize(raw_text), MoreThan4Words)

StartsAlpha(w) == IsAlphaChar(Ch(w, 1))
NotStop(w) == w \notin StopWords
LowerAll(toks) == Materialize([i \in 1..Len(toks) |-> Lower(toks[i])])

\* tokenized_nostop of one sentence: lower-cased tokens that start with a letter, stop words removed
TokensNoStop(s) == SelectSeq(LowerAll(SelectSeq(word_tokenize(s), StartsAlpha)), NotStop)

TfidfTokens(sentences) == Materialize([i \in 1..Len(sentences) |-> TokensNoStop(sentences[i])])

\* df[w] over the distinct token lists
DocFreq(distinct, w) == Cardinality({tp \in distinct : w \in Range(tp)})

\* idf scaled by 10000: log((N + 1) / (1 + df)) + 1.0
Idf(N, distinct, w) == LnTable[N + 1] - LnTable[1 + DocFreq(distinct, w)] + 10000

CountOf(tk, w) == Cardinality({k \in 1..Len(tk) : tk[k] = w})

\* the sum of cnt * idf over the distinct tokens of tk
TermScore(N, distinct, tk) ==
    SumSeq([k \in 1..Len(tk) |->
              IF \E j \in 1..(k - 1) : tk[j] = tk[k] THEN 0
              ELSE CountOf(tk, tk[k]) * Idf(N, distinct, tk[k])])

\* s_score as the fraction num/den: num = sum of cnt * idf, den = len(toks)
SentenceScore(N, distinct, tk) ==
    IF tk = <<>> THEN [num |-> 0, den |-> 1]
    ELSE [num |-> TermScore(N, distinct, tk), den |-> Len(tk)]

ScoresOf(toks) == Materialize([i \in 1..Len(toks) |-> SentenceScore(Len(toks), Range(toks), toks[i])])

TfidfScores(sentences) == ScoresOf(TfidfTokens(sentences))

\* (score_i, i) sorts before (score_j, j) under scores.sort(reverse=True)
TfidfBefore(sc, i, j) ==
    \/ sc[i].num * sc[j].den > sc[j].num * sc[i].den
    \/ sc[i].num * sc[j].den = sc[j].num * sc[i].den /\ i > j

\* scores[:target_count], top_idx.sort(), [sentences[i] for i in top_idx]
TopByScore(sentences, sc, target_count) ==
    AtIndices(sentences,
              {i \in 1..Len(sentences) :
                  Cardinality({j \in 1..Len(sentences) : j # i /\ TfidfBefore(sc, j, i)}) < target_count})

\* a tfidf branch that returns every eligible sentence
TfidfTopUncut(sentences, target_count) == sentences

TfidfTop(sentences, target_count) ==
    IF sentences = <<>> THEN <<>> ELSE TopByScore(sentences, TfidfScores(sentences), target_count)

TfidfRank(raw_text, target_count) == TfidfTop(TfidfSentences(raw_text), target_count)

\* sumy stand-in for TextRankSummarizer / LexRankSummarizer: the sentences_count
\* sentences that share most content words with the others, in document order
ContentOf(ws) == {Lower(ws[i]) : i \in {k \in 1..Len(ws) : IsAlpha(ws[k])}} \ StopWords

ContentWords(s) == ContentOf(word_tokenize(s))

ContentAll(sents) == Materialize([i \in 1..Len(sents) |-> ContentWords(sents[i])])

Ratings(cw) ==
    Materialize([i \in 1..Len(cw) |->
                   SumSeq([j \in 1..Len(cw) |-> IF j = i THEN 0 ELSE Cardinality(cw[i] \cap cw[j])])])

RatedBefore(rating, j, i) == rating[j] > rating[i] \/ (rating[j] = rating[i] /\ j < i)

TopRated(sents, rating, sentences_count) ==
    AtIndices(sents,
              {i \in 1..Len(sents) :
                  Cardinality({j \in 1..Len(sents) : j # i /\ RatedBefore(rating, j, i)}) < sentences_count})

SummarizeSentences(sents, sentences_count) == TopRated(sents, Ratings(ContentAll(sents)), sentences_count)

Summarize(raw_text, sentences_count) == SummarizeSentences(sent_tokenize(raw_text), sentences_count)

\* what a call of a sumy summarizer does: "ok", "raise" (an exception) or "empty"
SummarizerCall(raw_text, target_count, behaviour) ==
    IF behaviour = "raise" THEN [raised |-> TRUE, v |-> <<>>]
    ELSE IF behaviour = "empty" THEN [raised |-> FALSE, v |-> <<>>]
    ELSE [raised |-> FALSE, v |-> Summarize(raw_text, target_count)]

\* the try block of rank_sentences
RankFirst(raw_text, method, target_count, lib) ==
    IF method = "lexrank" THEN SummarizerCall(raw_text, target_count, lib.lexrank)
    ELSE IF method = "tfidf" THEN [raised |-> FALSE, v |-> TfidfRank(raw_text, target_count)]
    ELSE SummarizerCall(raw_text, target_count, lib.textrank)

\* the inner try of the except block: "Fallback TextRank failed" returns []
FallbackValue(fb) == IF fb.raised THEN <<>> ELSE fb.v

RankOrFallback(raw_text, target_count, lib, first) ==
    IF ~first.raised THEN first.v
    ELSE FallbackValue(SummarizerCall(raw_text, target_count, lib.textrank))

RankWith(raw_text, method, target_count, lib) ==
    RankOrFallback(raw_text, target_count, lib, RankFirst(raw_text, method, target_count, lib))

\* (method or "textrank").strip().lower()
MethodName(method0) == Lower(Strip(IF method0 = "" THEN "textrank" ELSE method0))

\* rank_sentences(raw_text, method); lib gives each sumy summarizer's behaviour
rank_sentences(raw_text, method0, lib) ==
    RankWith(raw_text, MethodName(method0), TargetCount(Len(sent_tokenize(raw_text))), lib)

\* the sort key of the quality fallback: (len(s.split()), len(set(word_tokenize(s))))
QualityKeys(lemmatized) ==
    Materialize([i \in 1..Len(lemmatized) |->
                   [k1 |-> WordCount(lemmatized[i]),
                    k2 |-> Cardinality(Range(word_tokenize(lemmatized[i])))]])

\* sorted(..., reverse=True) is stable: equal keys keep their order
QualityBefore(key, i, j) ==
    \/ key[i].k1 > key[j].k1
    \/ key[i].k1 = key[j].k1 /\ key[i].k2 > key[j].k2
    \/ key[i].k1 = key[j].k1 /\ key[i].k2 = key[j].k2 /\ i < j

QualitySorted(lemmatized, key, m) ==
    Materialize([k \in 1..m |->
        lemmatized[CHOOSE i \in 1..Len(lemmatized) :
            Cardinality({j \in 1..Len(lemmatized) : j # i /\ QualityBefore(key, j, i)}) = k - 1]])

\* a quality fallback that takes a fifth of the sentences, as target_count does
QualityFallbackFifth(lemmatized) ==
    QualitySorted(lemmatized, QualityKeys(lemmatized),
                  Min2(Len(lemmatized), Max2(5, Len(lemmatized) \div 5)))

\* sorted(lemmatized, key=..., reverse=True)[:max(5, len // 7)]
QualityFallback(lemmatized) ==
    QualitySorted(lemmatized, QualityKeys(lemmatized),
                  Min2(Len(lemmatized), Max2(5, Len(lemmatized) \div 7)))

\* the number of tokens of rw that occur in the token set lw
SharedTokens(rw, lw) == Cardinality({i \in 1..Len(rw) : rw[i] \in lw})

\* the test that maps a ranked sentence back to a lemmatized one
MapsTo(rank_lower, lemm_lower) ==
    \/ Contains(rank_lower, lemm_lower)
    \/ Contains(lemm_lower, rank_lower)
    \/ SharedTokens(word_tokenize(rank_lower), Range(word_tokenize(lemm_lower))) >= 3

LowerStripAll(seq) == Materialize([i \in 1..Len(seq) |-> Strip(Lower(seq[i]))])

\* "If mapping failed, use ranked sentences directly"
MappedOrRaw(mapped, ranked_lower) ==
    IF Len(mapped) < Len(ranked_lower) \div 2 THEN ranked_lower ELSE mapped

MapBack(lemmatized_sentences, ranked_lower) ==
    LET Hit(lemm_sent) == \E i \in 1..Len(ranked_lower) : MapsTo(ranked_lower[i], Strip(Lower(lemm_sent)))
    IN  MappedOrRaw(SelectSeq(lemmatized_sentences, Hit), ranked_lower)

\* ranked_sentences of preprocess_text from the result of rank_sentences
RankedFor(lemmatized_sentences, ranked_sentences_raw) ==
    IF Len(ranked_sentences_raw) = 0 THEN QualityFallback(lemmatized_sentences)
    ELSE MapBack(lemmatized_sentences, LowerStripAll(ranked_sentences_raw))

\* the default preprocess_text gives RANK_METHOD
PreprocessRankDefault == "textrank"

\* rank_method = os.getenv("RANK_METHOD", "textrank").strip().lower()
RankMethodOf(e) == Lower(Strip(Getenv(e, "RANK_METHOD", PreprocessRankDefault)))

PreprocessRanked(text, lemmatized_sentences, ranked_sentences_raw) ==
    [sentences |-> lemmatized_sentences,
     ranked_sentences |-> RankedFor(lemmatized_sentences, ranked_sentences_raw),
     text |-> text]

PreprocessClean(text, rank_method, lib) ==
    PreprocessRanked(text, LemmatizedSentences(text), rank_sentences(text, rank_method, lib))

\* preprocess_text(raw_text) under the environment e: (sentences, ranked_sentences, text)
preprocess_text(raw_text, e, lib) == PreprocessClean(CleanText(raw_text), RankMethodOf(e), lib)

(***************************************************************************)
(* run_pipeline.py: the parsing of the configuration, sentence selection   *)
(***************************************************************************)
\* the defaults main gives the optional configuration values
DefaultRankMethod == "tfidf"
\* a sentence cap of 10
TopSentencesTen == "10"
DefaultTopSentences == "20"
DefaultBatchSize == "50"
DefaultSmartSelection == "1"

DigitVal == [c \in DigitChars |-> (CHOOSE i \in 1..10 : Ch(DigitSeq, i) = c) - 1]

RECURSIVE Pow10(_)
Pow10(n) == IF n = 0 THEN 1 ELSE 10 * Pow10(n - 1)

IsDigits(t) == Len(t) > 0 /\ Len(t) <= 6 /\ \A i \in 1..Len(t) : IsDigitChar(Ch(t, i))

\* int(s) succeeds: decimal digits, surrounding whitespace allowed
IsIntText(s) == IsDigits(Strip(s))

DigitsValue(t) == SumSeq([i \in 1..Len(t) |-> DigitVal[Ch(t, i)] * Pow10(Len(t) - i)])

\* int(s)
ParseInt(s) == DigitsValue(Strip(s))

\* the pieces of s between the ascending cut positions
PiecesBetween(s, cuts) ==
    Materialize([k \in 1..(Len(cuts) + 1) |->
                   SubSeq(s, (IF k = 1 THEN 1 ELSE cuts[k - 1] + 1),
                             (IF k <= Len(cuts) THEN cuts[k] - 1 ELSE Len(s)))])

\* s.split(c): the pieces between the occurrences of the character c
SplitChar(s, c) == PiecesBetween(s, SortedSeq({i \in 1..Len(s) : Ch(s, i) = c}))

AllTypes == <<"mcq", "fill_blanks", "true_false", "short_answer">>

StripLowerAll(parts) == Materialize([i \in 1..Len(parts) |-> Lower(Strip(parts[i]))])

\* "Parse question types"
SelectedTypes(selected) ==
    IF Contains(",", selected) THEN StripLowerAll(SplitChar(selected, ","))
    ELSE IF selected \in {"", "all"} THEN AllTypes
    ELSE << Lower(Strip(selected)) >>

type_map ==
    [t \in {"mcq"} |-> "mcq"] @@
    [t \in {"fill", "fill_blanks", "fill-in-the-blanks", "fill in the blanks"} |-> "fill_blanks"] @@
    [t \in {"tf", "true_false", "true/false", "truefalse", "true or false"} |-> "true_false"] @@
    [t \in {"short", "short_answer", "short answer"} |-> "short_answer"]

\* [type_map.get(t, t) for t in selected_types]
MapTypes(st) ==
    Materialize([i \in 1..Len(st) |-> IF st[i] \in DOMAIN type_map THEN type_map[st[i]] ELSE st[i]])

NormalizedTypes(selected) == MapTypes(SelectedTypes(selected))

\* "Length score" of smart_sentence_selection
LengthScore(n) == IF 8 <= n /\ n <= 25 THEN 2 ELSE IF 6 <= n /\ n <= 30 THEN 1 ELSE 0

\* "Complexity score": a word after the first starts with an upper-case letter
ProperScore(words) == IF \E i \in 2..Len(words) : Ch(words[i], 1) \in UpperChars THEN 1 ELSE 0

\* the score of one sentence as the fraction num/den: whole + 2 * unique / n
ScoreOf(words, n, whole) ==
    IF n = 0 THEN [num |-> whole, den |-> 1]
    ELSE [num |-> whole * n + 2 * Cardinality(Range(words)), den |-> n]

ScoreWords(words) == ScoreOf(words, Len(words), LengthScore(Len(words)) + ProperScore(words))

SmartScore(s) == ScoreWords(Split(s))

SmartScores(sentences) == Materialize([i \in 1..Len(sentences) |-> SmartScore(sentences[i])])

\* scored.sort(reverse=True, key=score) is stable: equal scores keep their order
SmartBefore(sc, i, j) ==
    \/ sc[i].num * sc[j].den > sc[j].num * sc[i].den
    \/ sc[i].num * sc[j].den = sc[j].num * sc[i].den /\ i < j

TopScored(sentences, sc, max_sentences) ==
    Materialize([k \in 1..max_sentences |->
        sentences[CHOOSE i \in 1..Len(sentences) :
            Cardinality({j \in 1..Len(sentences) : j # i /\ SmartBefore(sc, j, i)}) = k - 1]])

smart_sentence_selection(sentences, max_sentences) ==
    IF Len(sentences) <= max_sentences THEN sentences
    ELSE TopScored(sentences, SmartScores(sentences), max_sentences)

\* "Cap sentences for performance"
CapSentences(use_sentences, SENTENCE_CAP, USE_SMART_SELECTION) ==
    IF Len(use_sentences) > SENTENCE_CAP
    THEN (IF USE_SMART_SELECTION THEN smart_sentence_selection(use_sentences, SENTENCE_CAP)
          ELSE SubSeq(use_sentences, 1, SENTENCE_CAP))
    ELSE use_sentences

\* hashlib.md5 stand-in: a position-weighted sum of character codes
HashAlphabet == LowerSeq \o DigitSeq \o " .,!?;:'\"()-" \o UpperSeq
CharCode == [c \in CharSet(HashAlphabet) |-> CHOOSE i \in 1..Len(HashAlphabet) : Ch(HashAlphabet, i) = c]

CodeOf(c) == IF c \in DOMAIN CharCode THEN CharCode[c] ELSE 0

Digest(seed_str) ==
    SumSeq([i \in 1..Len(seed_str) |-> ((i % 97) + 1) * CodeOf(Ch(seed_str, i))]) + Len(seed_str)

\* seed_val of "Deterministic randomness"
SeedVal(cleaned_text) == Digest(SubSeq(cleaned_text, 1, Min2(Len(cleaned_text), 10000))) % 100000000

\* the generator left as it is
KeepGenerator(cleaned_text, x) == x

\* random.seed(seed_val) on the shared generator, x its state before
SeedRandom(cleaned_text, x) == RngSeed(SeedVal(cleaned_text))

(***************************************************************************)
(* run_pipeline.py: generation, the fallback, the files                    *)
(***************************************************************************)
\* questions.extend(r): calls lists the synthesizers that ran
Extend(acc, r, name, asked) ==
    [items |-> acc.items \o r.items,
     g |-> r.g,
     calls |-> IF asked THEN Append(acc.calls, name) ELSE acc.calls]

ExtendMcq(sentences, ts, g) ==
    Extend([items |-> <<>>, g |-> g, calls |-> <<>>],
           IF "mcq" \in ts THEN generate_mcq(sentences, g) ELSE NoItems(g),
           "mcq", "mcq" \in ts)

ExtendFill(sentences, ts, acc) ==
    Extend(acc,
           IF "fill_blanks" \in ts THEN generate_fill(sentences, acc.g) ELSE NoItems(acc.g),
           "fill_blanks", "fill_blanks" \in ts)

ExtendTrueFalse(sentences, ts, acc) ==
    Extend(acc,
           IF "true_false" \in ts THEN generate_true_false(sentences, acc.g) ELSE NoItems(acc.g),
           "true_false", "true_false" \in ts)

ExtendShort(sentences, ts, acc) ==
    Extend(acc,
           IF "short_answer" \in ts THEN generate_short_answers(sentences, acc.g) ELSE NoItems(acc.g),
           "short_answer", "short_answer" \in ts)

\* the four "if <type> in types: extend(...)" statements, in the order of the source
GenerateIn(sentences, ts, g) ==
    ExtendShort(sentences, ts,
      ExtendTrueFalse(sentences, ts,
        ExtendFill(sentences, ts,
          ExtendMcq(sentences, ts, g))))

GenerateTypes(sentences, types, g) == GenerateIn(sentences, Range(types), g)

\* a batch loop that puts the results of later chunks first
PrependBatchReversed(one, rest) ==
    [items |-> rest.items \o one.items, g |-> rest.g, calls |-> one.calls \o rest.calls]

PrependBatch(one, rest) ==
    [items |-> one.items \o rest.items, g |-> rest.g, calls |-> one.calls \o rest.calls]

RECURSIVE BatchFrom(_, _, _, _, _, _)
BatchNext(sentences, question_types, batch_size, batch_num, total_batches, one) ==
    PrependBatch(one, BatchFrom(sentences, question_types, batch_size, batch_num + 1, total_batches, one.g))
BatchFrom(sentences, question_types, batch_size, batch_num, total_batches, g) ==
    IF batch_num >= total_batches THEN [items |-> <<>>, g |-> g, calls |-> <<>>]
    ELSE BatchNext(sentences, question_types, batch_size, batch_num, total_batches,
                   GenerateIn(SubSeq(sentences, batch_num * batch_size + 1,
                                     Min2(batch_num * batch_size + batch_size, Len(sentences))),
                              question_types, g))

batch_generate_questions(sentences, question_types, batch_size, g) ==
    BatchFrom(sentences, Range(question_types), batch_size, 0,
              (Len(sentences) + batch_size - 1) \div batch_size, g)

\* "Generate with batching for large inputs"
FirstPass(use_sentences, normalized_types, BATCH_SIZE, g) ==
    IF Len(use_sentences) > BATCH_SIZE
    THEN batch_generate_questions(use_sentences, normalized_types, BATCH_SIZE, g)
    ELSE GenerateTypes(use_sentences, normalized_types, g)

\* a fallback that is never taken
FallbackNever(questions) == FALSE

\* "if not questions:" of the fallback
FallbackNeeded(questions) == questions = <<>>

\* a fallback that leaves out generate_true_false
ThreeTypesPass(use_sentences, g) == GenerateTypes(use_sentences, <<"mcq", "fill_blanks", "short_answer">>, g)

\* the fallback: the four synthesizers over use_sentences
AllTypesPass(use_sentences, g) == GenerateTypes(use_sentences, AllTypes, g)

option_labels == <<"A)", "B)", "C)", "D)">>

OptionLabel(idx) == IF idx <= Len(option_labels) THEN option_labels[idx] ELSE Ch(UpperSeq, idx) \o ")"

OptionLines(options) ==
    Cat([idx \in 1..Len(options) |-> "  " \o OptionLabel(idx) \o " " \o options[idx] \o "\n"])

\* the text write_generated_questions writes for one question
FormatQuestion(q) ==
    "(" \o q.type \o ") " \o q.question \o "\n"
      \o (IF q.type = "MCQ" /\ q.options # <<>> THEN OptionLines(q.options) ELSE "")
      \o "Answer: " \o q.answer \o "\n\n"

write_generated_questions(questions) ==
    Cat([i \in 1..Len(questions) |-> FormatQuestion(questions[i])])

\* a newline is met going left from position i through whitespace
RECURSIVE NewlineBefore(_, _)
NewlineBefore(s, i) ==
    IF i <= 1 \/ ~IsSpaceChar(Ch(s, i - 1)) THEN FALSE
    ELSE IF Ch(s, i - 1) = "\n" THEN TRUE
    ELSE NewlineBefore(s, i - 1)

\* the last newline met going right from position i through whitespace, 0 if none
RECURSIVE LastNewlineAfter(_, _)
LaterOr(later, s, i) == IF later > 0 THEN later ELSE IF Ch(s, i + 1) = "\n" THEN i + 1 ELSE 0
LastNewlineAfter(s, i) ==
    IF i >= Len(s) \/ ~IsSpaceChar(Ch(s, i + 1)) THEN 0
    ELSE LaterOr(LastNewlineAfter(s, i + 1), s, i)

\* the blocks between the separators that start at the ascending positions seps
BlocksBetween(content, seps) ==
    Materialize([k \in 1..(Len(seps) + 1) |->
        SubSeq(content, (IF k = 1 THEN 1 ELSE LastNewlineAfter(content, seps[k - 1]) + 1),
                        (IF k <= Len(seps) THEN seps[k] - 1 ELSE Len(content)))])

\* re.split(r"\n\s*\n", content)
SplitBlocks(content) ==
    BlocksBetween(content,
                  SortedSeq({i \in 1..Len(content) :
                                /\ Ch(content, i) = "\n"
                                /\ ~NewlineBefore(content, i)
                                /\ LastNewlineAfter(content, i) > 0}))

\* the if/elif chain of load_questions and group_by_type on a lower-cased block
BlockKind(b) ==
    IF Contains("(mcq)", b) THEN "MCQ"
    ELSE IF Contains("(fill", b) /\ Contains("blank", b) THEN "Fill"
    ELSE IF Contains("(true", b) /\ (Contains("false", b) \/ Contains("true/false", b)) THEN "TF"
    ELSE IF Contains("(short answer", b) THEN "Short"
    ELSE "None"

\* each block stripped, with the list it is appended to
Classified(blocks) ==
    Materialize([i \in 1..Len(blocks) |->
                   [block |-> Strip(blocks[i]), kind |-> BlockKind(Lower(blocks[i]))]])

BlockTexts(cs) == Materialize([i \in 1..Len(cs) |-> cs[i].block])

BlocksOf(classified, kind) ==
    LET Is(c) == c.kind = kind
    IN  BlockTexts(SelectSeq(classified, Is))

Grouped(classified) ==
    [MCQ |-> BlocksOf(classified, "MCQ"), Fill |-> BlocksOf(classified, "Fill"),
     TF |-> BlocksOf(classified, "TF"), Short |-> BlocksOf(classified, "Short")]

group_by_type(content) == Grouped(Classified(SplitBlocks(content)))

AsTuple(gr) == <<gr.MCQ, gr.Fill, gr.TF, gr.Short>>

\* load_questions(file_path): (mcq, fill, tf, short); file is the content of
\* the file, NoneStr if it does not exist
load_questions(file) ==
    IF file = NoneStr THEN <<<<>>, <<>>, <<>>, <<>>>>
    ELSE AsTuple(Grouped(Classified(SplitBlocks(Strip(file)))))

\* randomize_within_types(mcq, fill, tf, short), l the four lists and x the generator state
ShuffledAll(m, f, t, s) == [v |-> m.v \o f.v \o t.v \o s.v, rng |-> s.rng]
ShuffleShort(l, m, f, t) == ShuffledAll(m, f, t, Shuffle(t.rng, l[4]))
ShuffleTf(l, m, f) == ShuffleShort(l, m, f, Shuffle(f.rng, l[3]))
ShuffleFill(l, m) == ShuffleTf(l, m, Shuffle(m.rng, l[2]))
randomize_within_types(l, x) == ShuffleFill(l, Shuffle(x, l[1]))

\* save_randomized(questions, output_path): the content of the file afterwards
save_randomized(questions, old) ==
    IF questions = <<>> THEN old ELSE Join(questions, "\n\n")

(***************************************************************************)
(* The state                                                               *)
(***************************************************************************)
VARIABLES
    pc,       \* the position in run_pipeline.main ("gen" when the synthesizers are called directly)
    env,      \* os.environ: variable name |-> value, NoneStr when unset
    sumy,     \* what a call of each sumy summarizer does: "ok", "raise" or "empty"
    files,    \* the files main reads and writes: name |-> content, NoneStr when the file does not exist
    g,        \* the state shared by the synthesizers: [rng |-> generator state, cache |-> keys of _pos_cache]
    loc,      \* the local variables of main
    error,    \* the exception main raised, NoneStr if none
    log,      \* history of the current run: the synthesizer passes, the size of the first pass, the variables unset at its start
    runs,     \* the results of the runs of main this process has finished
    gen_in,   \* the sentence list handed to a synthesizer called directly
    gen_fn,   \* the synthesizer called last
    gen_out   \* the items it returned

vars == <<pc, env, sumy, files, g, loc, error, log, runs, gen_in, gen_fn, gen_out>>

\* the number of runs of main in one process
MaxRuns == 2
\* the number of generator states the process may start in
NumSeeds == 2
\* the longest sentence list handed to a synthesizer called directly
MaxSents == 3
\* the number of direct synthesizer calls in one process
MaxCalls == 2

MAX_CHARS == 20000
MinChars == 50

EmptyLoc ==
    [selected |-> "", SENTENCE_CAP |-> 0, BATCH_SIZE |-> 0, USE_SMART_SELECTION |-> FALSE,
     raw_text |-> "", rank_method |-> "", sentences |-> <<>>, ranked_sentences |-> <<>>,
     cleaned_text |-> "", use_sentences |-> <<>>, normalized_types |-> <<>>, questions |-> <<>>,
     source_content |-> ""]

EmptyLog == [calls |-> <<>>, first_pass |-> -1, retries |-> 0, absent |-> {}, seeds |-> <<>>]

NoFiles ==
    [pasted |-> NoneStr, generated |-> NoneStr, randomized |-> NoneStr, pdf |-> NoneStr,
     cleaned_sentences |-> NoneStr, ranked_sentences |-> NoneStr, cleaned_text |-> NoneStr]

UnsetEnv == [n \in EnvNames |-> NoneStr]

\* the text made of k copies of s
Repeat(s, k) == Cat([i \in 1..k |-> s])

(***************************************************************************)
(* The documents and configurations the process is started with            *)
(***************************************************************************)
DocBiology ==
    "Green plants convert sunlight and water into sugar.\n\nThe Roots absorb water from the soil!  Page 12 "
      \o "Leaves use light to produce energy. Cells divide. The mitochondria is the powerhouse of the cell. "
      \o "He ran and she sat down by it then. The cell wall protects the cell and the cell membrane."

\* fewer than 50 characters
DocTooShort == "  Cells divide. Plants grow.  \n"

\* 50 characters and more, no sentence of more than 4 words
DocFragments == "Cells divide. Plants grow. Roots absorb water. Leaves use light. Stems grow."

\* three nouns a sentence: no sentence has the three distractors an MCQ needs
DocFewNouns == "The big roots absorb water from the old soil. Leaves use light to produce energy."

\* sentences of more than 6 words without a word of 4 letters
DocNoLongWord == "He ran and she sat by it in the sun. We saw a red bus go by us."

\* sentences of 5 words, no word of 4 letters
DocPlain == "He ran and she sat. We saw a red bus. It is not too far. You can go by car."

\* 200 words: 20 sentences of 10 words
DocRich200 ==
    Repeat("The green plant uses sunlight and water to make sugar. "
             \o "The cell wall protects the nucleus and the cell membrane. "
             \o "The root of the plant absorbs water from the soil. "
             \o "The leaf stores energy for the stem and the root. ", 5)

\* 200 words: 40 sentences of 5 words, no word of 4 letters
DocPlain200 ==
    Repeat(DocPlain \o " ", 10)

SmallDocs == {DocBiology, DocTooShort, DocFragments, DocFewNouns, DocNoLongWord, DocPlain}
BigDocs == {DocRich200, DocPlain200}

SumyOk == [textrank |-> "ok", lexrank |-> "ok"]

EnvWith(pairs) == [n \in EnvNames |-> IF n \in DOMAIN pairs THEN pairs[n] ELSE NoneStr]

Configs ==
    { [env |-> UnsetEnv, sumy |-> SumyOk],
      [env |-> EnvWith([QUESTION_TYPE |-> "essay"]), sumy |-> SumyOk],
      [env |-> EnvWith([QUESTION_TYPE |-> "mcq"]), sumy |-> SumyOk],
      [env |-> EnvWith([QUESTION_TYPE |-> "TF, short", TOP_SENTENCES |-> "3", SMART_SELECTION |-> "0"]),
       sumy |-> SumyOk],
      [env |-> EnvWith([QUESTION_TYPE |-> "fill", TOP_SENTENCES |-> "4", BATCH_SIZE |-> "2"]),
       sumy |-> SumyOk],
      [env |-> EnvWith([RANK_METHOD |-> "textrank"]), sumy |-> SumyOk],
      [env |-> EnvWith([RANK_METHOD |-> "LexRank", QUESTION_TYPE |-> "all"]),
       sumy |-> [textrank |-> "ok", lexrank |-> "raise"]],
      [env |-> EnvWith([RANK_METHOD |-> "textrank", QUESTION_TYPE |-> "quiz,essay"]),
       sumy |-> [textrank |-> "raise", lexrank |-> "raise"]],
      [env |-> EnvWith([RANK_METHOD |-> "textrank"]), sumy |-> [textrank |-> "empty", lexrank |-> "ok"]],
      [env |-> EnvWith([TOP_SENTENCES |-> "many"]), sumy |-> SumyOk],
      [env |-> EnvWith([BATCH_SIZE |-> "0"]), sumy |-> SumyOk] }

BigConfigs ==
    { [env |-> UnsetEnv, sumy |-> SumyOk],
      [env |-> EnvWith([QUESTION_TYPE |-> "essay"]), sumy |-> SumyOk] }

\* a randomized_questions.txt left by an earlier process
StaleRandomized == "(MCQ) Which _____ is old?\n  A) Moon\n  B) Star\n  C) Rock\n  D) Tree\nAnswer: Rock"

Scenarios ==
    {[doc |-> d, env |-> c.env, sumy |-> c.sumy] : d \in SmallDocs, c \in Configs}
      \cup {[doc |-> d, env |-> c.env, sumy |-> c.sumy] : d \in BigDocs, c \in BigConfigs}
      \cup {[doc |-> NoneStr, env |-> UnsetEnv, sumy |-> SumyOk]}

Init ==
    /\ pc = "start"
    /\ \E sc \in Scenarios, stale \in {NoneStr, StaleRandomized} :
         /\ env = sc.env
         /\ sumy = sc.sumy
         /\ files = [NoFiles EXCEPT !.pasted = sc.doc, !.randomized = stale]
    /\ \E x \in 0..(NumSeeds - 1) : g = [rng |-> x, cache |-> {}]
    /\ loc = EmptyLoc
    /\ error = NoneStr
    /\ log = EmptyLog
    /\ runs = <<>>
    /\ gen_in = <<>>
    /\ gen_fn = "none"
    /\ gen_out = <<>>

(***************************************************************************)
(* run_pipeline.main, one action per step                                  *)
(***************************************************************************)
Raise(e) ==
    /\ pc' = "raised"
    /\ error' = e

ErrValue == "ValueError: invalid literal for int()"
ErrNoInput == "RuntimeError: No input file found"
ErrTooShort == "RuntimeError: Input text too short (< 50 characters)"
ErrNoSentences == "RuntimeError: No valid sentences found"
ErrZeroDivision == "ZeroDivisionError: integer division or modulo by zero"
ErrNoRandomized == "FileNotFoundError: randomized_questions.txt"

\* "Configuration" and "Performance optimizations"
ReadConfig ==
    /\ pc = "start"
    /\ \E env1 \in {Setdefault(env, "RANK_METHOD", DefaultRankMethod)} :
       \E top \in {Getenv(env1, "TOP_SENTENCES", DefaultTopSentences)} :
       \E batch \in {Getenv(env1, "BATCH_SIZE", DefaultBatchSize)} :
       \E selected \in {Lower(Strip(Getenv(env, "QUESTION_TYPE", "")))} :
          /\ env' = env1
          /\ log' = [EmptyLog EXCEPT !.absent = {n \in EnvNames : env[n] = NoneStr}]
          /\ IF ~IsIntText(top) \/ ~IsIntText(batch)
             THEN /\ Raise(ErrValue)
                  /\ loc' = [EmptyLoc EXCEPT !.selected = selected]
             ELSE /\ pc' = "load"
                  /\ error' = NoneStr
                  /\ loc' = [EmptyLoc EXCEPT
                               !.selected = selected,
                               !.SENTENCE_CAP = ParseInt(top),
                               !.BATCH_SIZE = ParseInt(batch),
                               !.USE_SMART_SELECTION =
                                   (Getenv(env1, "SMART_SELECTION", DefaultSmartSelection) = "1")]
    /\ UNCHANGED <<sumy, files, g, runs, gen_in, gen_fn, gen_out>>

\* "1) Preprocessing": the input is read, trimmed and its length checked
LoadText ==
    /\ pc = "load"
    /\ IF files.pasted = NoneStr
       THEN Raise(ErrNoInput) /\ UNCHANGED loc
       ELSE \E raw_text \in {SubSeq(files.pasted, 1, Min2(Len(files.pasted), MAX_CHARS))} :
                /\ loc' = [loc EXCEPT !.raw_text = raw_text]
                /\ IF Len(Strip(raw_text)) < MinChars
                   THEN Raise(ErrTooShort)
                   ELSE pc' = "preprocess" /\ UNCHANGED error
    /\ UNCHANGED <<env, sumy, files, g, log, runs, gen_in, gen_fn, gen_out>>

\* preprocessing.preprocess_text(raw_text) and preprocessing.save_outputs(...)
Preprocess ==
    /\ pc = "preprocess"
    /\ \E r \in {preprocess_text(loc.raw_text, env, sumy)} :
           /\ loc' = [loc EXCEPT !.rank_method = RankMethodOf(env),
                                 !.sentences = r.sentences,
                                 !.ranked_sentences = r.ranked_sentences,
                                 !.cleaned_text = r.text]
           /\ files' = [files EXCEPT !.cleaned_sentences = Join(r.sentences, "\n"),
                                     !.ranked_sentences = Join(r.ranked_sentences, "\n"),
                                     !.cleaned_text = r.text]
    /\ pc' = "select"
    /\ UNCHANGED <<env, sumy, g, error, log, runs, gen_in, gen_fn, gen_out>>

\* "2) Sentence selection"
SelectSentences ==
    /\ pc = "select"
    /\ \E use_sentences \in {IF loc.ranked_sentences # <<>> THEN loc.ranked_sentences ELSE loc.sentences} :
           IF use_sentences = <<>>
           THEN Raise(ErrNoSentences) /\ UNCHANGED loc
           ELSE /\ loc' = [loc EXCEPT !.use_sentences =
                              CapSentences(use_sentences, loc.SENTENCE_CAP, loc.USE_SMART_SELECTION)]
                /\ pc' = "seed"
                /\ UNCHANGED error
    /\ UNCHANGED <<env, sumy, files, g, log, runs, gen_in, gen_fn, gen_out>>

\* a main that goes on to the generation without seeding the generator
SeedingSkipped ==
    /\ pc = "seed"
    /\ pc' = "generate"
    /\ UNCHANGED <<env, sumy, files, g, loc, error, log, runs, gen_in, gen_fn, gen_out>>

\* "Deterministic randomness": random.seed(seed_val), once, between the
\* selection and the first synthesizer call
SeedGenerator ==
    /\ pc = "seed"
    /\ g' = [g EXCEPT !.rng = SeedRandom(loc.cleaned_text, g.rng)]
    /\ log' = [log EXCEPT !.seeds = Append(@, [seed_val |-> SeedVal(loc.cleaned_text),
                                                calls_before |-> Len(log.calls)])]
    /\ pc' = "generate"
    /\ UNCHANGED <<env, sumy, files, loc, error, runs, gen_in, gen_fn, gen_out>>

PassCalls(pass, calls) == [i \in 1..Len(calls) |-> [pass |-> pass, fn |-> calls[i]]]

\* "3) Question generation": the requested types, batched or direct
GenerateQuestions ==
    /\ pc = "generate"
    /\ \E normalized_types \in {NormalizedTypes(loc.selected)} :
           IF Len(loc.use_sentences) > loc.BATCH_SIZE /\ loc.BATCH_SIZE = 0
           THEN /\ Raise(ErrZeroDivision)
                /\ loc' = [loc EXCEPT !.normalized_types = normalized_types]
                /\ UNCHANGED <<g, log>>
           ELSE \E r \in {FirstPass(loc.use_sentences, normalized_types, loc.BATCH_SIZE, g)} :
                    /\ loc' = [loc EXCEPT !.normalized_types = normalized_types, !.questions = r.items]
                    /\ g' = r.g
                    /\ log' = [log EXCEPT !.calls = PassCalls("first", r.calls),
                                          !.first_pass = Len(r.items)]
                    /\ pc' = "fallback"
                    /\ UNCHANGED error
    /\ UNCHANGED <<env, sumy, files, runs, gen_in, gen_fn, gen_out>>

\* "Fallback if no questions generated"
Fallback ==
    /\ pc = "fallback"
    /\ IF FallbackNeeded(loc.questions)
       THEN \E r \in {AllTypesPass(loc.use_sentences, g)} :
                /\ loc' = [loc EXCEPT !.questions = r.items]
                /\ g' = r.g
                /\ log' = [log EXCEPT !.calls = @ \o PassCalls("retry", r.calls),
                                      !.retries = @ + 1]
       ELSE UNCHANGED <<loc, g, log>>
    /\ pc' = "write"
    /\ UNCHANGED <<env, sumy, files, error, runs, gen_in, gen_fn, gen_out>>

\* qg.clear_cache() and write_generated_questions(questions)
ClearAndWrite ==
    /\ pc = "write"
    /\ g' = clear_cache(g)
    /\ files' = [files EXCEPT !.generated = write_generated_questions(loc.questions)]
    /\ pc' = "randomize"
    /\ UNCHANGED <<env, sumy, loc, error, log, runs, gen_in, gen_fn, gen_out>>

ItemTypes(questions) == {questions[i].type : i \in 1..Len(questions)}

\* "4) Randomization"
Randomize ==
    /\ pc = "randomize"
    /\ IF Len(loc.normalized_types) > 1 \/ Cardinality(ItemTypes(loc.questions)) > 1
       THEN \E shuffled \in {randomize_within_types(load_questions(files.generated), g.rng)} :
            \E randomized \in {save_randomized(shuffled.v, files.randomized)} :
                /\ g' = [g EXCEPT !.rng = shuffled.rng]
                /\ files' = [files EXCEPT !.randomized = randomized]
                /\ IF randomized = NoneStr
                   THEN Raise(ErrNoRandomized) /\ UNCHANGED loc
                   ELSE /\ loc' = [loc EXCEPT !.source_content = Strip(randomized)]
                        /\ pc' = "export"
                        /\ UNCHANGED error
       ELSE /\ loc' = [loc EXCEPT !.source_content = Strip(files.generated)]
            /\ pc' = "export"
            /\ UNCHANGED <<g, files, error>>
    /\ UNCHANGED <<env, sumy, log, runs, gen_in, gen_fn, gen_out>>

\* "5) PDF generation": the PDF holds the grouped blocks
ExportPdf ==
    /\ pc = "export"
    /\ files' = [files EXCEPT !.pdf = group_by_type(loc.source_content)]
    /\ pc' = "done"
    /\ UNCHANGED <<env, sumy, g, loc, error, log, runs, gen_in, gen_fn, gen_out>>

\* main is called again in the same process, on the same input
NextRun ==
    /\ pc \in {"done", "raised"}
    /\ Len(runs) + 1 < MaxRuns
    /\ runs' = Append(runs, [questions |-> loc.questions, error |-> error, pc |-> pc])
    /\ pc' = "start"
    /\ loc' = EmptyLoc
    /\ error' = NoneStr
    /\ log' = EmptyLog
    /\ UNCHANGED <<env, sumy, files, g, gen_in, gen_fn, gen_out>>

Next ==
    \/ ReadConfig
    \/ LoadText
    \/ Preprocess
    \/ SelectSentences
    \/ SeedGenerator
    \/ GenerateQuestions
    \/ Fallback
    \/ ClearAndWrite
    \/ Randomize
    \/ ExportPdf
    \/ NextRun

Spec == Init /\ [][Next]_vars

(***************************************************************************)
(* The synthesizers called directly, as question_generation's callers do   *)
(***************************************************************************)
Corpus ==
    << "The Cell's cells needn't divide, today.",
       "  Green plants convert   sunlight and water into sugar.",
       "1. Leaves use light to produce energy.",
       "The system stores data for the process in this part of the work.",
       "one or two of the big red old men",
       "He ran and she sat down by it then.",
       "Water needs a cell, a WATER stem and a leaf or a root.",
       "The cell wall protects the cell and the cell membrane." >>

\* the sentence lists of at most MaxSents sentences taken from the corpus, in corpus order
Ascending(idx) == \A i \in 1..Len(idx), j \in 1..Len(idx) : i < j => idx[i] < idx[j]
CorpusPicks == {idx \in UNION {[1..k -> 1..Len(Corpus)] : k \in 0..MaxSents} : Ascending(idx)}

InitGen ==
    /\ pc = "gen"
    /\ env = UnsetEnv
    /\ sumy = SumyOk
    /\ files = NoFiles
    /\ \E x \in 0..(NumSeeds - 1) : g = [rng |-> x, cache |-> {}]
    /\ loc = EmptyLoc
    /\ error = NoneStr
    /\ log = EmptyLog
    /\ runs = <<>>
    /\ \E idx \in CorpusPicks : gen_in = PickAll(Corpus, idx)
    /\ gen_fn = "none"
    /\ gen_out = <<>>

\* a caller receives the result r of the synthesizer called name
Returned(name, r) ==
    /\ gen_fn' = name
    /\ gen_out' = r.items
    /\ g' = r.g
    /\ log' = [log EXCEPT !.calls = Append(@, [pass |-> "direct", fn |-> name])]
    /\ UNCHANGED <<pc, env, sumy, files, loc, error, runs, gen_in>>

CallGenerateMcq ==
    /\ pc = "gen" /\ Len(log.calls) < MaxCalls
    /\ \E r \in {generate_mcq(gen_in, g)} : Returned("generate_mcq", r)

CallGenerateFill ==
    /\ pc = "gen" /\ Len(log.calls) < MaxCalls
    /\ \E r \in {generate_fill(gen_in, g)} : Returned("generate_fill", r)

CallGenerateTrueFalse ==
    /\ pc = "gen" /\ Len(log.calls) < MaxCalls
    /\ \E r \in {generate_true_false(gen_in, g)} : Returned("generate_true_false", r)

CallGenerateShortAnswers ==
    /\ pc = "gen" /\ Len(log.calls) < MaxCalls
    /\ \E r \in {generate_short_answers(gen_in, g)} : Returned("generate_short_answers", r)

NextGen ==
    \/ CallGenerateMcq
    \/ CallGenerateFill
    \/ CallGenerateTrueFalse
    \/ CallGenerateShortAnswers

SpecGen == InitGen /\ [][NextGen]_vars

(***************************************************************************)
(* Properties of the synthesizers (under SpecGen)                          *)
(***************************************************************************)
\* the number of options of q that equal its answer, case ignored
SameAsAnswer(q) == Cardinality({i \in 1..Len(q.options) : Lower(q.options[i]) = Lower(q.answer)})

\* the number of tokens of toks equal to w, case ignored
TokenCount(toks, w) == Cardinality({i \in 1..Len(toks) : Lower(toks[i]) = Lower(w)})

\* C1: every item returned by generate_mcq has exactly 4 options, and exactly
\* one of them equals the item's answer under case-insensitive comparison
C1_FourOptionsOneAnswer ==
    gen_fn = "generate_mcq" =>
        \A k \in 1..Len(gen_out) : Len(gen_out[k].options) = 4 /\ SameAsAnswer(gen_out[k]) = 1

\* generate_mcq returned an item for a sentence in which the answer occurs twice
C1_Witness ==
    /\ gen_fn = "generate_mcq"
    /\ \E k \in 1..Len(gen_out) : TokenCount(word_tokenize(gen_out[k].src), gen_out[k].answer) >= 2

\* word stands at position i of s, case ignored
MatchesAt(word, s, i) == Lower(SubSeq(s, i, i + Len(word) - 1)) = Lower(word)

\* no word character touches the Len(word) characters at position i of s
StandsAlone(word, s, i) ==
    /\ (i = 1 \/ ~IsWordChar(Ch(s, i - 1)))
    /\ (i + Len(word) > Len(s) \/ ~IsWordChar(Ch(s, i + Len(word))))

OccursAsWord(word, s) ==
    \E i \in 1..(Len(s) - Len(word) + 1) : MatchesAt(word, s, i) /\ StandsAlone(word, s, i)

OccursInsideWord(word, s) ==
    \E i \in 1..(Len(s) - Len(word) + 1) : MatchesAt(word, s, i) /\ ~StandsAlone(word, s, i)

\* C2: the answer of every MCQ item and of every Fill-in-the-Blank item occurs,
\* case ignored, as a whole word in the normalized sentence the item was made from
C2_AnswerIsWholeWord ==
    gen_fn \in {"generate_mcq", "generate_fill"} =>
        \A k \in 1..Len(gen_out) : OccursAsWord(gen_out[k].answer, gen_out[k].src)

\* generate_fill returned an item whose answer also occurs inside a longer word of the sentence
C2_Witness ==
    /\ gen_fn = "generate_fill"
    /\ \E k \in 1..Len(gen_out) : OccursInsideWord(gen_out[k].answer, gen_out[k].src)

\* n of generate_true_false: the sentences of more than 6 words
EligibleCount(sentences) == Cardinality({i \in 1..Len(sentences) : WordCount(sentences[i]) > 6})

AnswerCount(items, a) == Cardinality({k \in 1..Len(items) : items[k].answer = a})

\* C3 as claimed: with n eligible sentences generate_true_false returns exactly
\* n // 2 items with answer "False" and n - n // 2 items with answer "True"
C3_ExactSplit ==
    gen_fn = "generate_true_false" =>
        /\ AnswerCount(gen_out, "False") = EligibleCount(gen_in) \div 2
        /\ AnswerCount(gen_out, "True") = EligibleCount(gen_in) - EligibleCount(gen_in) \div 2

\* C3 amended: with n eligible sentences generate_true_false returns exactly
\* n - n // 2 items with answer "True" and at most n // 2 items with answer
\* "False" (a sentence chosen for negation that cannot be negated is dropped)
C3_TrueExactFalseAtMost ==
    gen_fn = "generate_true_false" =>
        /\ AnswerCount(gen_out, "True") = EligibleCount(gen_in) - EligibleCount(gen_in) \div 2
        /\ AnswerCount(gen_out, "False") <= EligibleCount(gen_in) \div 2
        /\ Len(gen_out) = AnswerCount(gen_out, "True") + AnswerCount(gen_out, "False")

\* generate_true_false returned a "False" and a "True" item for two eligible sentences or more
C3_Witness ==
    /\ gen_fn = "generate_true_false"
    /\ EligibleCount(gen_in) >= 2
    /\ AnswerCount(gen_out, "False") >= 1
    /\ AnswerCount(gen_out, "True") >= 1

\* the statement of a True/False item: the question without "True or False: "
Statement(q) == SubSeq(q.question, Len("True or False: ") + 1, Len(q.question))

\* the statement is the source sentence up to the capitalization of its first letter
IsSource(q) == Statement(q) = capitalize_first(q.src)

\* C4: generate_true_false emits no statement that was selected for negation
\* and left unchanged; the statement of every "False" item differs from its
\* source sentence, the statement of every "True" item is its source sentence
\* up to first-letter capitalization
C4_NoUnchangedNegation ==
    gen_fn = "generate_true_false" =>
        \A k \in 1..Len(gen_out) :
            /\ gen_out[k].neg => ~IsSource(gen_out[k])
            /\ gen_out[k].answer = "False" => ~IsSource(gen_out[k]) /\ Statement(gen_out[k]) # gen_out[k].src
            /\ gen_out[k].answer = "True" => IsSource(gen_out[k]) /\ ~gen_out[k].neg

\* generate_true_false dropped a sentence it had selected for negation
C4_Witness ==
    /\ gen_fn = "generate_true_false"
    /\ Len(gen_out) < EligibleCount(gen_in)

\* the question of item q with the answer put in place of the first blank
Unblanked(q, i) ==
    SubSeq(q.question, 1, i - 1) \o q.answer \o SubSeq(q.question, i + 5, Len(q.question))

\* the blank of q stands at position i, where the source has the answer as a whole
\* word, and the answer put back gives the source, case ignored
RoundTripAt(q, i) ==
    /\ i > 0
    /\ MatchesAt(q.answer, q.src, i)
    /\ StandsAlone(q.answer, q.src, i)
    /\ Lower(Unblanked(q, i)) = Lower(q.src)

\* C14: the question of every item returned by generate_fill has the blank
\* marker where the key term was, and the answer put in place of the blank gives
\* a string equal, case ignored, to the normalized source sentence
C14_FillRoundTrip ==
    gen_fn = "generate_fill" =>
        \A k \in 1..Len(gen_out) : RoundTripAt(gen_out[k], FindSub("_____", gen_out[k].question))

\* generate_fill returned an item whose blank is at the start of the question
C14_Witness ==
    /\ gen_fn = "generate_fill"
    /\ \E k \in 1..Len(gen_out) : StartsWith(gen_out[k].question, "_____")

(***************************************************************************)
(* Properties of run_pipeline.main (under Spec)                            *)
(***************************************************************************)
\* main is past the fallback
FallbackDone ==
    \/ pc \in {"write", "randomize", "export", "done"}
    \/ pc = "raised" /\ error = ErrNoRandomized

\* C5: a run of main that follows a run on the same input text and the same
\* configuration in the same process produces the same ordered list of items
C5_SecondRunSameQuestions ==
    FallbackDone /\ runs # <<>> => loc.questions = runs[Len(runs)].questions

\* a second run ended with items made by random choices (an MCQ among them)
C5_Witness ==
    /\ pc = "done"
    /\ Len(runs) = 1
    /\ \E k \in 1..Len(loc.questions) : loc.questions[k].type = "MCQ"

\* the synthesizers the retry called, in call order
RetryCalls ==
    LET IsRetry(c) == c.pass = "retry"
    IN  SelectSeq(log.calls, IsRetry)

CallNames(cs) == Materialize([i \in 1..Len(cs) |-> cs[i].fn])

\* C6: if the pass over the requested types yields zero items, all four
\* synthesizers run once more whatever was requested; the retry happens exactly
\* once and only when the first pass is empty
C6_RetryOnceWhenEmpty ==
    FallbackDone =>
        IF log.first_pass = 0
        THEN log.retries = 1 /\ CallNames(RetryCalls) = AllTypes
        ELSE log.retries = 0 /\ RetryCalls = <<>>

\* only MCQs were requested, the first pass was empty and the retry made items of another type
C6_Witness ==
    /\ pc = "write"
    /\ loc.normalized_types = <<"mcq">>
    /\ log.first_pass = 0
    /\ log.retries = 1
    /\ loc.questions # <<>>

\* none of the requested type tags names a synthesizer
NoneRecognized ==
    /\ loc.normalized_types # <<>>
    /\ \A i \in 1..Len(loc.normalized_types) : loc.normalized_types[i] \notin Range(AllTypes)

\* a sentence selected for generation has more than 6 words
HasLongSentence == \E i \in 1..Len(loc.use_sentences) : WordCount(loc.use_sentences[i]) > 6

\* C7 as claimed: when no requested type tag is recognized, a run on a 200-word
\* paragraph ends with at least one item
C7_NeverEmpty ==
    pc = "done" /\ NoneRecognized /\ WordCount(loc.raw_text) = 200 => loc.questions # <<>>

\* C7 amended: when no requested type tag is recognized and a selected sentence
\* has more than 6 words, the run ends with at least one item, made by the retry
C7_NonEmptyWithLongSentence ==
    FallbackDone /\ NoneRecognized /\ HasLongSentence => loc.questions # <<>> /\ log.retries = 1

\* a run on a 200-word paragraph with an unrecognized type tag ended with items of the retry
C7_Witness ==
    /\ pc = "done"
    /\ NoneRecognized
    /\ log.retries = 1
    /\ loc.questions # <<>>
    /\ WordCount(loc.raw_text) = 200

\* the errors that come from the configuration or the missing input file, not from the text
ConfigErrors == {ErrValue, ErrNoInput, ErrZeroDivision}

\* C8: the only error main raises on account of the document content is the
\* input-length check; on a text of at least 50 characters main does not raise
C8_OnlyLengthCheckRaises ==
    pc = "raised" /\ error \notin ConfigErrors =>
        error = ErrTooShort /\ Len(Strip(loc.raw_text)) < MinChars

\* C9: when the retry also yields zero items the run stops there and does not
\* go on to randomize and export as if questions had been produced
C9_EmptyRetryIsTerminal ==
    pc \in {"randomize", "export", "done"} => loc.questions # <<>>

\* the configuration has been read into the locals of main
ConfigRead == pc \notin {"start", "gen"} /\ error # ErrValue

\* preprocess_text has read RANK_METHOD
RankingDone ==
    \/ pc \in {"select", "seed", "generate", "fallback", "write", "randomize", "export", "done"}
    \/ pc = "raised" /\ error \in {ErrNoSentences, ErrZeroDivision, ErrNoRandomized}

\* an absent optional value does not make main raise
AbsenceIsNoError ==
    /\ error = ErrValue => ~("TOP_SENTENCES" \in log.absent /\ "BATCH_SIZE" \in log.absent)
    /\ error = ErrZeroDivision => "BATCH_SIZE" \notin log.absent

\* the defaults of the sentence cap, the batch size and the smart-selection toggle
OtherDefaults ==
    ConfigRead =>
        /\ "TOP_SENTENCES" \in log.absent => loc.SENTENCE_CAP = 20
        /\ "BATCH_SIZE" \in log.absent => loc.BATCH_SIZE = 50
        /\ "SMART_SELECTION" \in log.absent => loc.USE_SMART_SELECTION

\* C10 as claimed: an absent optional value takes its default when the pipeline
\* runs (ranking method textrank, sentence cap 20, batch size 50, smart
\* selection on) and its absence causes no error
C10_StatedDefaults ==
    /\ RankingDone /\ "RANK_METHOD" \in log.absent => loc.rank_method = "textrank"
    /\ OtherDefaults
    /\ AbsenceIsNoError

\* C10 amended: as claimed, except that the ranking method of a run of main
\* without RANK_METHOD is tfidf
C10_DefaultsOfMain ==
    /\ RankingDone /\ "RANK_METHOD" \in log.absent => loc.rank_method = "tfidf"
    /\ OtherDefaults
    /\ AbsenceIsNoError

\* a run without any of the optional values ended
C10_Witness ==
    /\ pc = "done"
    /\ log.absent = EnvNames
    /\ loc.rank_method = "tfidf"
    /\ loc.SENTENCE_CAP = 20 /\ loc.BATCH_SIZE = 50 /\ loc.USE_SMART_SELECTION

\* the seed main computes from the cleaned text: a digest of its first 10000 characters, modulo 10^8
SeedOfPrefix(cleaned_text) ==
    Digest(SubSeq(cleaned_text, 1, Min2(Len(cleaned_text), 10000))) % 100000000

\* the run has got to the generation
PastSeeding == pc \in {"generate", "fallback", "write", "randomize", "export", "done"}

\* C18: in a run of main the shared generator is seeded at most once, and exactly
\* once in every run that gets to the generation; the seed is derived from the
\* first 10000 characters of the cleaned text and lies in [0, 10^8); the seeding
\* comes before the first synthesizer call, which starts from the seeded
\* generator, and no seeding happens between or after the synthesizers
C18_SeededOnceBeforeSynthesizers ==
    /\ Len(log.seeds) <= 1
    /\ PastSeeding \/ log.calls # <<>> => Len(log.seeds) = 1
    /\ \A k \in 1..Len(log.seeds) :
         /\ log.seeds[k].calls_before = 0
         /\ log.seeds[k].seed_val = SeedOfPrefix(loc.cleaned_text)
         /\ log.seeds[k].seed_val \in 0..(100000000 - 1)
    /\ pc = "generate" => log.calls = <<>> /\ g.rng = RngSeed(log.seeds[1].seed_val)

\* a finished run in which the retry ran the four synthesizers after the one seeding
C18_Witness ==
    /\ pc = "done"
    /\ Len(log.calls) >= 5
    /\ Len(log.seeds) = 1
    /\ log.seeds[1].seed_val > 0

(***************************************************************************)
(* target_count of rank_sentences over documents of growing length         *)
(***************************************************************************)
\* the largest number of sentences of a document
MaxTotal == 130

\* gen_in is len(sent_tokenize(raw_text)) of the document handed to rank_sentences
InitTarget ==
    /\ pc = "target"
    /\ env = UnsetEnv
    /\ sumy = SumyOk
    /\ files = NoFiles
    /\ g = [rng |-> 0, cache |-> {}]
    /\ loc = EmptyLoc
    /\ error = NoneStr
    /\ log = EmptyLog
    /\ runs = <<>>
    /\ gen_in \in 0..MaxTotal
    /\ gen_fn = "none"
    /\ gen_out = 0

\* rank_sentences computes target_count for the document
CallTargetCount ==
    /\ pc = "target" /\ gen_fn = "none"
    /\ gen_fn' = "target_count"
    /\ gen_out' = TargetCount(gen_in)
    /\ UNCHANGED <<pc, env, sumy, files, g, loc, error, log, runs, gen_in>>

\* rank_sentences computes target_count for a document of one sentence more
LongerDocument ==
    /\ pc = "target" /\ gen_fn = "target_count"
    /\ gen_in < MaxTotal
    /\ gen_in' = gen_in + 1
    /\ gen_out' = TargetCount(gen_in + 1)
    /\ UNCHANGED <<pc, env, sumy, files, g, loc, error, log, runs, gen_fn>>

NextTarget ==
    \/ CallTargetCount
    \/ LongerDocument

SpecTarget == InitTarget /\ [][NextTarget]_vars

\* total // 5 held between 5 and 25
FifthBetween5And25(total) ==
    IF total \div 5 < 5 THEN 5 ELSE IF total \div 5 > 25 THEN 25 ELSE total \div 5

\* C11: for every sentence count total >= 0 rank_sentences computes
\* target_count = max(5, min(total // 5, 25)); target_count lies in [5, 25] and
\* does not decrease when the sentence count grows
C11_TargetCountFormula ==
    /\ [](gen_fn = "target_count" =>
            gen_out = FifthBetween5And25(gen_in) /\ gen_out >= 5 /\ gen_out <= 25)
    /\ [][gen_fn = "target_count" => gen_out' >= gen_out]_vars

\* target_count was computed for a document for which it lies strictly between its limits
C11_Witness ==
    /\ gen_fn = "target_count"
    /\ gen_in > 60
    /\ gen_out = 12

\* C12 as claimed: for a document of fewer than 25 sentences target_count is
\* at most the number of sentences of the document
C12_TargetAtMostTotal ==
    gen_fn = "target_count" /\ gen_in < 25 => gen_out <= gen_in

\* C12 amended: for a document of 5 sentences or more target_count is at most
\* the number of sentences of the document
C12_TargetAtMostTotalFromFive ==
    gen_fn = "target_count" /\ gen_in >= 5 => gen_out <= gen_in

\* target_count was computed for a document of exactly 5 sentences
C12_Witness ==
    /\ gen_fn = "target_count"
    /\ gen_in = 5
    /\ gen_out = 5

(***************************************************************************)
(* generate_mcq and generate_fill on the example sentence                  *)
(***************************************************************************)
\* the number of generator states the example is run from
ExampleSeeds == 40

ExampleSentence == "The mitochondria is the powerhouse of the cell."

InitExample ==
    /\ pc = "example"
    /\ env = UnsetEnv
    /\ sumy = SumyOk
    /\ files = NoFiles
    /\ \E x \in 0..(ExampleSeeds - 1) : g = [rng |-> x, cache |-> {}]
    /\ loc = EmptyLoc
    /\ error = NoneStr
    /\ log = EmptyLog
    /\ runs = <<>>
    /\ gen_in = <<ExampleSentence>>
    /\ gen_fn = "none"
    /\ gen_out = <<>>

\* what select_key_noun returns for the first sentence of a call
SelectedNoun(sentences, gs) ==
    select_key_noun(get_pos_tags(normalize_sentence(sentences[1]), gs).tagged, gs.rng).v

\* the call returned r; the history keeps the noun the selector chose
ReturnedFor(name, r) ==
    /\ gen_fn' = name
    /\ gen_out' = r.items
    /\ g' = r.g
    /\ log' = [log EXCEPT !.calls = Append(@, [pass |-> "direct", fn |-> name,
                                               selected |-> SelectedNoun(gen_in, g)])]
    /\ UNCHANGED <<pc, env, sumy, files, loc, error, runs, gen_in>>

ExampleMcq ==
    /\ pc = "example" /\ Len(log.calls) < MaxCalls
    /\ \E r \in {generate_mcq(gen_in, g)} : ReturnedFor("generate_mcq", r)

ExampleFill ==
    /\ pc = "example" /\ Len(log.calls) < MaxCalls
    /\ \E r \in {generate_fill(gen_in, g)} : ReturnedFor("generate_fill", r)

NextExample ==
    \/ ExampleMcq
    \/ ExampleFill

SpecExample == InitExample /\ [][NextExample]_vars

\* the last call was of fn and its selector chose "mitochondria"
ChoseMitochondria(fn) ==
    /\ gen_fn = fn
    /\ log.calls # <<>>
    /\ log.calls[Len(log.calls)].selected = "mitochondria"

\* C13 as claimed: for the sentence "The mitochondria is the powerhouse of the
\* cell." with the selector choosing "mitochondria", generate_mcq produces an
\* MCQ item with question "The _____ is the powerhouse of the cell.", answer
\* "Mitochondria" and 4 options that include the answer
C13_ExampleYieldsMcq ==
    ChoseMitochondria("generate_mcq") =>
        /\ Len(gen_out) = 1
        /\ gen_out[1].type = "MCQ"
        /\ gen_out[1].question = "The _____ is the powerhouse of the cell."
        /\ gen_out[1].answer = "Mitochondria"
        /\ Len(gen_out[1].options) = 4
        /\ "Mitochondria" \in Range(gen_out[1].options)

\* C13 amended: for that sentence generate_mcq produces no item, whatever the
\* selector chooses (the sentence has two other nouns, three distractors are
\* needed); with the selector choosing "mitochondria" generate_fill produces the
\* item with question "The _____ is the powerhouse of the cell." and answer
\* "mitochondria"
C13_ExampleYieldsFillOnly ==
    /\ gen_fn = "generate_mcq" => gen_out = <<>>
    /\ ChoseMitochondria("generate_fill") =>
           /\ Len(gen_out) = 1
           /\ gen_out[1].type = "Fill-in-the-Blank"
           /\ gen_out[1].question = "The _____ is the powerhouse of the cell."
           /\ gen_out[1].answer = "mitochondria"

\* generate_mcq ran on the sentence, its selector chose "mitochondria" and no item came out
C13_Witness ==
    /\ ChoseMitochondria("generate_mcq")
    /\ gen_in = <<ExampleSentence>>
    /\ gen_out = <<>>


(***************************************************************************)
(* rank_sentences and preprocess_text under every behaviour of the sumy    *)
(* summarizers                                                             *)
(***************************************************************************)
\* six eligible sentences; the second and the fourth have the same tokens once
\* stop words are removed, and the lowest tfidf score of the document
DocTies ==
    "Green plants convert sunlight and water into sugar. The roots absorb water from the soil. "
      \o "Leaves use light to produce energy. Roots absorb the water from this soil. "
      \o "The mitochondria is the powerhouse of the cell. He ran and she sat down by it then."

RankDocs == {DocBiology, DocTies, DocFragments, DocPlain200}

RankMethods == {NoneStr, "tfidf", "textrank", "lexrank"}

Behaviours == {"ok", "raise", "empty"}

\* the summarizer the try block of rank_sentences calls, none on the tfidf branch
FirstSummarizer(method) ==
    IF method = "lexrank" THEN <<"lexrank">> ELSE IF method = "tfidf" THEN <<>> ELSE <<"textrank">>

\* the summarizer calls of one rank_sentences call: the except block calls TextRankSummarizer once
SummarizerCalls(method, first) ==
    FirstSummarizer(method) \o (IF first.raised THEN <<"textrank">> ELSE <<>>)

RankTrace(raw_text, method, target_count, lib) ==
    SummarizerCalls(method, RankFirst(raw_text, method, target_count, lib))

\* what a call leaves to look at: the method, the sentence count and target of
\* rank_sentences, its result and summarizer calls, and the lists of preprocess_text
Ranking(text, method, raw, calls, sentences, ranked) ==
    [method |-> method, total |-> Len(sent_tokenize(text)), raw |-> raw, calls |-> calls,
     sentences |-> sentences, ranked_sentences |-> ranked]

RankingOf(text, method, lib) ==
    Ranking(text, method, rank_sentences(text, method, lib),
            RankTrace(text, MethodName(method), TargetCount(Len(sent_tokenize(text))), lib), <<>>, <<>>)

PreprocessingOf(text, method, lib, r) ==
    Ranking(text, method, rank_sentences(text, method, lib),
            RankTrace(text, MethodName(method), TargetCount(Len(sent_tokenize(text))), lib),
            r.sentences, r.ranked_sentences)

InitRank ==
    /\ pc = "rank"
    /\ \E m \in RankMethods : env = EnvWith([RANK_METHOD |-> m])
    /\ \E t \in Behaviours, l \in Behaviours : sumy = [textrank |-> t, lexrank |-> l]
    /\ gen_in \in RankDocs
    /\ gen_fn = "none"
    /\ gen_out = 0
    /\ files = NoFiles
    /\ g = [rng |-> 0, cache |-> {}]
    /\ loc = EmptyLoc
    /\ error = NoneStr
    /\ log = EmptyLog
    /\ runs = <<>>

\* rank_sentences(raw_text, method) on the document as it was read
CallRankSentences ==
    /\ pc = "rank"
    /\ gen_fn = "none"
    /\ gen_fn' = "rank_sentences"
    /\ gen_out' = RankingOf(gen_in, RankMethodOf(env), sumy)
    /\ UNCHANGED <<pc, env, sumy, files, g, loc, error, log, runs, gen_in>>

\* preprocess_text(raw_text): cleaning, lemmatization, rank_sentences on the cleaned text
CallPreprocessText ==
    /\ pc = "rank"
    /\ gen_fn = "none"
    /\ gen_fn' = "preprocess_text"
    /\ \E r \in {preprocess_text(gen_in, env, sumy)} :
         gen_out' = PreprocessingOf(r.text, RankMethodOf(env), sumy, r)
    /\ UNCHANGED <<pc, env, sumy, files, g, loc, error, log, runs, gen_in>>

NextRank ==
    \/ CallRankSentences
    \/ CallPreprocessText

SpecRank == InitRank /\ [][NextRank]_vars


\* what the summarizer of the chosen method does, "ok" on the tfidf branch
ChosenBehaviour(method, lib) ==
    IF method = "lexrank" THEN lib.lexrank ELSE IF method = "tfidf" THEN "ok" ELSE lib.textrank

ChosenRaised == ChosenBehaviour(gen_out.method, sumy) = "raise"

\* the chosen method returned without an exception and without a sentence
ChosenEmpty ==
    \/ ChosenBehaviour(gen_out.method, sumy) = "empty"
    \/ ChosenBehaviour(gen_out.method, sumy) = "ok" /\ gen_out.raw = <<>>

RetriedOnce == gen_out.calls = FirstSummarizer(gen_out.method) \o <<"textrank">>

NotRetried == gen_out.calls = FirstSummarizer(gen_out.method)

Occurrences(seq, s) == Cardinality({k \in 1..Len(seq) : seq[k] = s})

\* (word count, unique-token count) of a before that of b
QualityAbove(a, b) ==
    \/ WordCount(a) > WordCount(b)
    \/ /\ WordCount(a) = WordCount(b)
       /\ Cardinality(Range(word_tokenize(a))) > Cardinality(Range(word_tokenize(b)))

\* ranked is made of the m sentences of lemmatized with the highest quality score, best first
IsQualityTop(ranked, lemmatized, m) ==
    /\ Len(ranked) = m
    /\ \A k \in 1..(m - 1) : ~QualityAbove(ranked[k + 1], ranked[k])
    /\ \A k \in 1..m : Occurrences(ranked, ranked[k]) <= Occurrences(lemmatized, ranked[k])
    /\ \A k \in 1..Len(lemmatized) :
         m > 0 /\ QualityAbove(lemmatized[k], ranked[m])
           => Occurrences(ranked, lemmatized[k]) = Occurrences(lemmatized, lemmatized[k])

\* the number of sentences the quality fallback of preprocess_text keeps
SeventhAtLeast5(n) == Min2(n, Max2(5, n \div 7))

\* C15 as stated: a chosen method that raises or returns no sentences has
\* TextRank retried exactly once, and when no ranking is left the ranked set is
\* the target_count sentences with the highest quality score.
C15_FailureChain ==
    gen_fn = "preprocess_text" =>
        /\ ChosenRaised \/ ChosenEmpty => RetriedOnce
        /\ gen_out.raw = <<>> =>
             IsQualityTop(gen_out.ranked_sentences, gen_out.sentences,
                          Min2(Len(gen_out.sentences), TargetCount(gen_out.total)))

\* C15: TextRank is retried exactly once when the chosen method raises and not
\* at all when it returns no sentences; when rank_sentences returns nothing the
\* ranked set is the max(5, n // 7) of the n eligible sentences (all of them when
\* fewer) with the highest quality score (word count, then unique-token count).
C15_RetryOnRaiseOnly ==
    gen_fn = "preprocess_text" =>
        /\ ChosenRaised => RetriedOnce
        /\ ~ChosenRaised => NotRetried
        /\ ChosenEmpty => gen_out.raw = <<>>
        /\ gen_out.raw = <<>> =>
             IsQualityTop(gen_out.ranked_sentences, gen_out.sentences,
                          SeventhAtLeast5(Len(gen_out.sentences)))

\* lexrank raises, the retried TextRank raises too, and 5 of 40 sentences are kept
C15_Witness ==
    /\ gen_fn = "preprocess_text"
    /\ gen_out.calls = <<"lexrank", "textrank">>
    /\ gen_out.raw = <<>>
    /\ gen_out.total = 40
    /\ Len(gen_out.ranked_sentences) = 5


\* C16: for a document the input-length check accepts, preprocess_text returns
\* a ranked sentence list that is not empty, whatever the ranking method does
C16_RankedNeverEmpty ==
    gen_fn = "preprocess_text" /\ Len(Strip(gen_in)) >= MinChars => gen_out.ranked_sentences # <<>>


\* sentences i and j have the same tfidf score
EqualScore(sc, i, j) == sc[i].num * sc[j].den = sc[j].num * sc[i].den

\* of two eligible sentences with the same score the later is kept only if the earlier is
EarlierKept(sentences, sc, kept) ==
    \A i \in 1..Len(sentences), j \in 1..Len(sentences) :
        i < j /\ EqualScore(sc, i, j) /\ sentences[j] \in Range(kept) => sentences[i] \in Range(kept)

RECURSIVE AscendingFrom(_, _, _, _)
AscendingFrom(kept, sentences, i, j) ==
    IF i > Len(kept) THEN TRUE
    ELSE IF j > Len(sentences) THEN FALSE
    ELSE IF kept[i] = sentences[j] THEN AscendingFrom(kept, sentences, i + 1, j + 1)
    ELSE AscendingFrom(kept, sentences, i, j + 1)

\* the sentences of the text of more than 4 words, in document order
EligibleSentences(raw_text) == SelectSeq(sent_tokenize(raw_text), LAMBDA s : WordCount(Strip(s)) > 4)

\* C21: the tfidf path of rank_sentences returns at most target_count sentences,
\* each an eligible sentence (more than 4 words) of the document, taken at
\* distinct indices and listed in ascending document order
C21_TfidfTopInDocumentOrder ==
    gen_fn = "rank_sentences" /\ gen_out.method = "tfidf" =>
        /\ Len(gen_out.raw) <= TargetCount(gen_out.total)
        /\ \A k \in 1..Len(gen_out.raw) : WordCount(gen_out.raw[k]) > 4
        /\ AscendingFrom(gen_out.raw, EligibleSentences(gen_in), 1, 1)

\* 5 of the 6 eligible sentences are returned, the first and the last among them
C21_Witness ==
    /\ gen_fn = "rank_sentences" /\ gen_out.method = "tfidf"
    /\ Len(EligibleSentences(gen_in)) = 6
    /\ Len(gen_out.raw) = 5
    /\ gen_out.raw[1] = EligibleSentences(gen_in)[1]
    /\ gen_out.raw[5] = EligibleSentences(gen_in)[6]

(***************************************************************************)
(* batch_generate_questions called on sentence lists, types and batch      *)
(* sizes of every kind                                                     *)
(***************************************************************************)
\* the longest sentence list handed to batch_generate_questions
MaxBatchSents == 4
\* the largest batch_size
MaxBatchSize == 3

\* runs of consecutive corpus sentences
BatchInputs == {SubSeq(Corpus, a, a + k - 1) : a \in {1, 2, 4}, k \in 0..MaxBatchSents}

BatchTypes == {AllTypes, <<"true_false">>, <<"short_answer", "mcq">>, <<"fill_blanks", "true_false">>}

\* the synthesizer the "if <type> in question_types" statement of that type calls
Synthesizer(name, batch, gs) ==
    IF name = "mcq" THEN generate_mcq(batch, gs)
    ELSE IF name = "fill_blanks" THEN generate_fill(batch, gs)
    ELSE IF name = "true_false" THEN generate_true_false(batch, gs)
    ELSE generate_short_answers(batch, gs)

\* one synthesizer call of the loop body: its name, the batch it received, what it returned
TraceCall(acc, name, batch, r) ==
    [calls |-> Append(acc.calls, [fn |-> name, batch |-> batch, items |-> r.items]), g |-> r.g]

TraceType(acc, name, batch, ts) ==
    IF name \in ts THEN TraceCall(acc, name, batch, Synthesizer(name, batch, acc.g)) ELSE acc

\* the four "if <type> in question_types" statements of the loop body
TraceIn(batch, ts, acc) ==
    TraceType(TraceType(TraceType(TraceType(acc, "mcq", batch, ts),
                                  "fill_blanks", batch, ts),
                        "true_false", batch, ts),
              "short_answer", batch, ts)

RECURSIVE BatchTraceFrom(_, _, _, _, _, _)
BatchTraceFrom(sentences, ts, batch_size, batch_num, total_batches, acc) ==
    IF batch_num >= total_batches THEN acc.calls
    ELSE BatchTraceFrom(sentences, ts, batch_size, batch_num + 1, total_batches,
                        TraceIn(SubSeq(sentences, batch_num * batch_size + 1,
                                       Min2(batch_num * batch_size + batch_size, Len(sentences))),
                                ts, acc))

\* the synthesizer calls batch_generate_questions makes, in the order it makes them
BatchTrace(sentences, question_types, batch_size, gs) ==
    BatchTraceFrom(sentences, Range(question_types), batch_size, 0,
                   (Len(sentences) + batch_size - 1) \div batch_size, [calls |-> <<>>, g |-> gs])

InitBatch ==
    /\ pc = "batch"
    /\ env = UnsetEnv
    /\ sumy = SumyOk
    /\ files = NoFiles
    /\ \E x \in 0..(NumSeeds - 1) : g = [rng |-> x, cache |-> {}]
    /\ \E b \in 1..MaxBatchSize, ts \in BatchTypes :
         loc = [EmptyLoc EXCEPT !.BATCH_SIZE = b, !.normalized_types = ts]
    /\ error = NoneStr
    /\ log = EmptyLog
    /\ runs = <<>>
    /\ gen_in \in BatchInputs
    /\ gen_fn = "none"
    /\ gen_out = [items |-> <<>>, calls |-> <<>>]

\* batch_generate_questions(sentences, question_types, batch_size)
CallBatchGenerate ==
    /\ pc = "batch"
    /\ gen_fn = "none"
    /\ gen_fn' = "batch_generate_questions"
    /\ \E r \in {batch_generate_questions(gen_in, loc.normalized_types, loc.BATCH_SIZE, g)} :
         /\ gen_out' = [items |-> r.items,
                        calls |-> BatchTrace(gen_in, loc.normalized_types, loc.BATCH_SIZE, g)]
         /\ g' = r.g
    /\ UNCHANGED <<pc, env, sumy, files, loc, error, log, runs, gen_in>>

\* the same sentences and types without batching, as main does for a short list
CallGenerateUnbatched ==
    /\ pc = "batch"
    /\ gen_fn = "none"
    /\ gen_fn' = "generate"
    /\ \E r \in {GenerateTypes(gen_in, loc.normalized_types, g)} :
         /\ gen_out' = [items |-> r.items,
                        calls |-> BatchTrace(gen_in, loc.normalized_types, Max2(1, Len(gen_in)), g)]
         /\ g' = r.g
    /\ UNCHANGED <<pc, env, sumy, files, loc, error, log, runs, gen_in>>

NextBatch ==
    \/ CallBatchGenerate
    \/ CallGenerateUnbatched

SpecBatch == InitBatch /\ [][NextBatch]_vars

TrueFalseItems(items) == SelectSeq(items, LAMBDA q : q.type = "True/False")

\* the number of eligible sentences that were selected for negation: those that
\* did not come back as a "True" item
SelectedForNegation(sentences, items) ==
    EligibleCount(sentences) - AnswerCount(TrueFalseItems(items), "True")

\* C17: with n eligible sentences, the number of sentences selected for negation
\* by batch_generate_questions, summed over all chunks, is floor(n/2) whatever
\* the batch_size
C17_BalancedAcrossChunks ==
    gen_fn = "batch_generate_questions" /\ "true_false" \in Range(loc.normalized_types) =>
        SelectedForNegation(gen_in, gen_out.items) = EligibleCount(gen_in) \div 2


\* the requested types in the order MCQ, FillBlank, TrueFalse, ShortAnswer
RequestedInOrder(question_types) == SelectSeq(AllTypes, LAMBDA t : t \in Range(question_types))

\* chunk c (from 0) of the sentences: batch_size consecutive sentences, the last chunk possibly shorter
Chunk(sentences, batch_size, c) ==
    SubSeq(sentences, c * batch_size + 1, Min2(c * batch_size + batch_size, Len(sentences)))

ChunkCount(sentences, batch_size) == (Len(sentences) + batch_size - 1) \div batch_size

\* the calls are those of nb chunks, each chunk handed to the requested synthesizers req in their order
CallsByChunk(calls, sentences, batch_size, nb, req) ==
    /\ Len(calls) = nb * Len(req)
    /\ \A c \in 0..(nb - 1), t \in 1..Len(req) :
         /\ calls[c * Len(req) + t].fn = req[t]
         /\ calls[c * Len(req) + t].batch = Chunk(sentences, batch_size, c)

\* the chunks cover every sentence exactly once, in input order
ChunksCover(sentences, batch_size, nb) ==
    /\ FlatRange([c \in 1..nb |-> Chunk(sentences, batch_size, c - 1)], 1, nb) = sentences
    /\ \A c \in 0..(nb - 2) : Len(Chunk(sentences, batch_size, c)) = batch_size
    /\ nb > 0 => Len(Chunk(sentences, batch_size, nb - 1)) \in 1..batch_size

\* C19: batch_generate_questions splits the sentences into consecutive chunks
\* of batch_size (the last possibly shorter) that cover every sentence once in
\* input order, calls each requested synthesizer on each chunk only, in the
\* order MCQ, FillBlank, TrueFalse, ShortAnswer, and returns the results of
\* the calls concatenated in chunk order
C19_ChunksInOrder ==
    gen_fn = "batch_generate_questions" =>
        /\ ChunksCover(gen_in, loc.BATCH_SIZE, ChunkCount(gen_in, loc.BATCH_SIZE))
        /\ CallsByChunk(gen_out.calls, gen_in, loc.BATCH_SIZE, ChunkCount(gen_in, loc.BATCH_SIZE),
                        RequestedInOrder(loc.normalized_types))
        /\ gen_out.items =
             FlatRange([k \in 1..Len(gen_out.calls) |-> gen_out.calls[k].items], 1, Len(gen_out.calls))

\* two chunks, the second shorter, all four types, items from both chunks
C19_Witness ==
    /\ gen_fn = "batch_generate_questions"
    /\ loc.normalized_types = AllTypes
    /\ loc.BATCH_SIZE = 2
    /\ Len(gen_in) = 3
    /\ Len(gen_out.calls) = 8
    /\ Len(gen_out.calls[5].batch) = 1
    /\ \E k \in 1..4 : gen_out.calls[k].items # <<>>
    /\ \E k \in 5..8 : gen_out.calls[k].items # <<>>


(***************************************************************************)
(* select_key_noun and the synthesizers on single sentences of every shape *)
(***************************************************************************)
\* the number of generator states each sentence is tried from
SentenceSeeds == 12

\* 31 words
LongSentence == Repeat("the root and ", 10) \o "soil."

SentenceCases ==
    { "Plants absorb water.",
      "Roots, leaves, cells, plants.",
      "The unit AB12 stores water from the soil.",
      "AB12 stores water from the soil today.",
      "1. Leaves use light to produce energy.",
      "Leaves use light and energy.",
      LongSentence,
      "  Green plants convert   sunlight and water into sugar.",
      "The system stores data for the process in this part of the work.",
      "The Cell's cells needn't divide, today.",
      "He ran and she sat down by it then.",
      "The cell wall protects the cell and the cell membrane.",
      "one or two of the big red old men",
      ExampleSentence }

InitSentence ==
    /\ pc = "sentence"
    /\ env = UnsetEnv
    /\ sumy = SumyOk
    /\ files = NoFiles
    /\ \E x \in 0..(SentenceSeeds - 1) : g = [rng |-> x, cache |-> {}]
    /\ loc = EmptyLoc
    /\ error = NoneStr
    /\ log = EmptyLog
    /\ runs = <<>>
    /\ \E s \in SentenceCases : gen_in = <<s>>
    /\ gen_fn = "none"
    /\ gen_out = <<>>

\* the tagged tokens a synthesizer hands to select_key_noun for sentence s
TaggedFor(s) == TaggedOf(normalize_sentence(s))

\* select_key_noun(tagged) on the tagged sentence: the result is the term or None
CallSelectKeyNoun ==
    /\ pc = "sentence"
    /\ gen_fn = "none"
    /\ gen_fn' = "select_key_noun"
    /\ \E r \in {select_key_noun(TaggedFor(gen_in[1]), g.rng)} :
         /\ gen_out' = <<r.v>>
         /\ g' = [g EXCEPT !.rng = r.rng]
    /\ UNCHANGED <<pc, env, sumy, files, loc, error, log, runs, gen_in>>

SentenceReturned(name, r) ==
    /\ gen_fn' = name
    /\ gen_out' = r.items
    /\ g' = r.g
    /\ UNCHANGED <<pc, env, sumy, files, loc, error, log, runs, gen_in>>

SentenceMcq ==
    /\ pc = "sentence" /\ gen_fn = "none"
    /\ \E r \in {generate_mcq(gen_in, g)} : SentenceReturned("generate_mcq", r)

SentenceFill ==
    /\ pc = "sentence" /\ gen_fn = "none"
    /\ \E r \in {generate_fill(gen_in, g)} : SentenceReturned("generate_fill", r)

SentenceTrueFalse ==
    /\ pc = "sentence" /\ gen_fn = "none"
    /\ \E r \in {generate_true_false(gen_in, g)} : SentenceReturned("generate_true_false", r)

SentenceShort ==
    /\ pc = "sentence" /\ gen_fn = "none"
    /\ \E r \in {generate_short_answers(gen_in, g)} : SentenceReturned("generate_short_answers", r)

NextSentence ==
    \/ CallSelectKeyNoun
    \/ SentenceMcq
    \/ SentenceFill
    \/ SentenceTrueFalse
    \/ SentenceShort

SpecSentence == InitSentence /\ [][NextSentence]_vars

\* the token is noun-like, alphabetic, of 4 letters or more and not a common word
Selectable(e) ==
    /\ StartsWith(e.t, "NN")
    /\ IsAlpha(e.w)
    /\ Len(e.w) >= 4
    /\ Lower(e.w) \notin COMMON_EXCLUDES

SelectableTokens(tagged) == {tagged[i].w : i \in {k \in 1..Len(tagged) : Selectable(tagged[k])}}

\* some generator state makes select_key_noun return w
CanSelect(tagged, w) == \E x \in 0..(SentenceSeeds - 1) : select_key_noun(tagged, x).v = w

\* C22: select_key_noun returns only a token tagged NN*, alphabetic, of length
\* >= 4 and not in the exclude set; every such token of the sentence is a
\* possible result; it returns None if and only if the sentence has no such token
C22_SelectsAnyKeyNoun ==
    gen_fn = "select_key_noun" =>
        /\ gen_out[1] # NoneStr => gen_out[1] \in SelectableTokens(TaggedFor(gen_in[1]))
        /\ gen_out[1] = NoneStr <=> SelectableTokens(TaggedFor(gen_in[1])) = {}
        /\ \A w \in SelectableTokens(TaggedFor(gen_in[1])) : CanSelect(TaggedFor(gen_in[1]), w)

\* of the four selectable nouns of a sentence the last was selected
C22_Witness ==
    /\ gen_fn = "select_key_noun"
    /\ Cardinality(SelectableTokens(TaggedFor(gen_in[1]))) = 4
    /\ gen_out = <<"sugar">>


\* the text a synthesizer tags for sentence s: generate_short_answers tags s_clean
TextTagged(fn, s) ==
    IF fn = "short_answer"
    THEN StripSet(DropNumberPrefix(normalize_sentence(s)), {" ", "."})
    ELSE normalize_sentence(s)

\* select_key_noun returns None for the sentence
SelectorGivesNone(fn, s) == SelectableTokens(TaggedOf(TextTagged(fn, s))) = {}

\* the number of items made from sentence s
ItemsFrom(items, s) == Cardinality({k \in 1..Len(items) : items[k].src = normalize_sentence(s)})

NormalizedInputs(sentences) == [i \in 1..Len(sentences) |-> normalize_sentence(sentences[i])]

Sources(items) == [k \in 1..Len(items) |-> items[k].src]

\* every noun the selector can return for s has a whole-word match in s
AlwaysMaskable(s) ==
    \A w \in SelectableTokens(TaggedOf(normalize_sentence(s))) : OccursAsWord(w, normalize_sentence(s))

\* no noun the selector can return for s has a whole-word match in s
NeverMaskable(s) ==
    \A w \in SelectableTokens(TaggedOf(normalize_sentence(s))) : ~OccursAsWord(w, normalize_sentence(s))

\* the call made no item from a sentence for which the selector returns none
NoneSkipped(call) ==
    \A i \in 1..Len(call.batch) :
        SelectorGivesNone(call.fn, call.batch[i]) => ItemsFrom(call.items, call.batch[i]) = 0

\* the call went on after a skipped sentence: its items come from its sentences
\* in their order, none from a sentence without a whole-word match, and
\* generate_fill makes one from every sentence whose noun can be selected and masked
OthersProcessed(call) ==
    /\ AscendingFrom(Sources(call.items), NormalizedInputs(call.batch), 1, 1)
    /\ call.fn \in {"mcq", "fill_blanks"} =>
         \A i \in 1..Len(call.batch) :
             NeverMaskable(call.batch[i]) => ItemsFrom(call.items, call.batch[i]) = 0
    /\ call.fn = "fill_blanks" =>
         \A i \in 1..Len(call.batch) :
             ~SelectorGivesNone(call.fn, call.batch[i]) /\ AlwaysMaskable(call.batch[i])
                => ItemsFrom(call.items, call.batch[i]) = 1

\* C23 as stated: in all four synthesizers a sentence for which the selector
\* returns none contributes no item
C23_NoneIsSkippedByAllFour ==
    \A k \in 1..Len(gen_out.calls) : NoneSkipped(gen_out.calls[k])

\* C23: in generate_mcq, generate_fill and generate_short_answers a sentence
\* for which the selector returns none contributes no item, and neither does a
\* sentence of generate_mcq or generate_fill whose masking finds no whole-word
\* match; the call returns normally and the sentences after the skipped one
\* are still processed (generate_true_false does not consult the selector)
C23_NoneIsSkippedByThree ==
    \A k \in 1..Len(gen_out.calls) :
        gen_out.calls[k].fn \in {"mcq", "fill_blanks", "short_answer"} =>
            NoneSkipped(gen_out.calls[k]) /\ OthersProcessed(gen_out.calls[k])

\* generate_fill skipped the first three of four sentences and made an item from the fourth
C23_Witness ==
    /\ gen_fn = "generate"
    /\ \E k \in 1..Len(gen_out.calls) :
         /\ gen_out.calls[k].fn = "fill_blanks"
         /\ Len(gen_out.calls[k].batch) = 4
         /\ \A i \in 1..3 : SelectorGivesNone("fill_blanks", gen_out.calls[k].batch[i])
         /\ Len(gen_out.calls[k].items) = 1
         /\ gen_out.calls[k].items[1].src = normalize_sentence(gen_out.calls[k].batch[4])


\* C24: generate_mcq and generate_fill emit items only from sentences of at
\* least 5 words; a sentence of 4 words or fewer never yields an item
C24_ShortSentenceYieldsNothing ==
    gen_fn \in {"generate_mcq", "generate_fill"} /\ WordCount(normalize_sentence(gen_in[1])) <= 4 =>
        gen_out = <<>>


\* [A-Za-z]{2,4}\d{2,} matches somewhere in s: two letters followed by two digits
ContainsCode(s) ==
    \E i \in 1..(Len(s) - 3) :
        /\ IsAlphaChar(Ch(s, i)) /\ IsAlphaChar(Ch(s, i + 1))
        /\ IsDigitChar(Ch(s, i + 2)) /\ IsDigitChar(Ch(s, i + 3))

\* s starts with a numeric list marker: digits and a full stop
StartsWithMarker(s) == HasNumberPrefix(s, LeadingDigits(s))

\* C25: generate_short_answers emits an item only for a sentence of 6 to 30
\* words that neither starts with a numeric list marker nor contains, anywhere
\* in it, an alphanumeric code pattern
C25_ShortAnswerEligibility ==
    gen_fn = "generate_short_answers" /\ gen_out # <<>> =>
        /\ WordCount(normalize_sentence(gen_in[1])) \in 6..30
        /\ ~StartsWithMarker(normalize_sentence(gen_in[1]))
        /\ ~ContainsCode(normalize_sentence(gen_in[1]))


\* the options of q other than its answer, lower-cased
Distractors(q) == {Lower(q.options[i]) : i \in {k \in 1..Len(q.options) : Lower(q.options[k]) # Lower(q.answer)}}

\* the nouns of the sentence a distractor may be: tagged NN*, alphabetic, of 4 letters or more
DistractorNouns(tagged) ==
    {Lower(tagged[i].w) : i \in {k \in 1..Len(tagged) :
                                    StartsWith(tagged[k].t, "NN") /\ IsAlpha(tagged[k].w) /\ Len(tagged[k].w) >= 4}}

\* C26: in every MCQ item the three non-answer options are pairwise distinct
\* nouns of the source sentence, each different from the answer, alphabetic and
\* of length >= 4; a sentence with fewer than 3 such distinct nouns yields no item
C26_ThreeDistinctDistractors ==
    gen_fn = "generate_mcq" =>
        \A k \in 1..Len(gen_out) :
            /\ Cardinality(Distractors(gen_out[k])) = 3
            /\ Distractors(gen_out[k]) \subseteq DistractorNouns(TaggedOf(gen_out[k].src))
            /\ Cardinality(DistractorNouns(TaggedOf(gen_out[k].src)) \ {Lower(gen_out[k].answer)}) >= 3


\* C27: over a sequence of runs of main in one process, runs that raised
\* included, _pos_cache is empty whenever a run has not yet begun its
\* synthesis: no entry of an earlier document is there when the synthesis of
\* the next begins
C27_CacheEmptyBeforeSynthesis ==
    pc \in {"start", "load", "preprocess", "select", "seed", "generate"} => g.cache = {}

\* a later run about to synthesize, after a run that produced questions
C27_Witness ==
    /\ pc = "generate"
    /\ Len(runs) >= 1
    /\ \E i \in 1..Len(runs) : runs[i].questions # <<>>


\* the blocks of an exported quiz, over its four sections
ExportedBlocks(pdf) ==
    {pdf.MCQ[i] : i \in 1..Len(pdf.MCQ)} \cup {pdf.Fill[i] : i \in 1..Len(pdf.Fill)}
      \cup {pdf.TF[i] : i \in 1..Len(pdf.TF)} \cup {pdf.Short[i] : i \in 1..Len(pdf.Short)}

\* the blocks a run writes for the questions it generated
RunBlocks(questions) == {Strip(FormatQuestion(questions[i])) : i \in 1..Len(questions)}

\* C28: the quiz a run of main exports holds only questions generated in that
\* run, whatever an earlier run left in randomized_questions.txt or
\* generated_questions.txt, also when the run generates no question
C28_ExportOnlyThisRun ==
    pc = "done" => ExportedBlocks(files.pdf) \subseteq RunBlocks(loc.questions)


(***************************************************************************)
(* app.py: the generation a logged-in client starts from the web pages     *)
(***************************************************************************)
\* the number of /start requests
MaxThreads == 2

\* the names question_generation.py binds at module level
question_generation_names ==
    {"random", "re", "pos_tag", "word_tokenize", "List", "Tuple", "Dict", "os",
     "COMMON_EXCLUDES", "BLANK_PATTERN", "WHITESPACE_PATTERN", "NUMBER_PREFIX_PATTERN", "_pos_cache",
     "normalize_sentence", "capitalize_first", "get_pos_tags", "select_key_noun",
     "mask_answer_in_sentence", "generate_mcq", "generate_fill", "generate_true_false",
     "generate_short_answers", "clear_cache"}

\* "import question_generation as question_generator": the module app.py calls question_generator
question_generator == question_generation_names

ErrNoValidInput == "ValueError: No valid input file found. Provide either pdf_path or text_path."
ErrTextTooShort == "ValueError: Text too short"
ErrNoQuestions == "ValueError: No questions generated"
ErrNoAttribute == "AttributeError: module 'question_generation' has no attribute 'QuestionGenerator'"

\* the type_map of start_generation
start_type_map ==
    [t \in {"mcq"} |-> "mcq"] @@
    [t \in {"fill", "fill_blanks", "fill-in-the-blanks", "fill in the blanks"} |-> "fill_blanks"] @@
    [t \in {"tf", "true_false", "true/false", "truefalse"} |-> "true_false"] @@
    [t \in {"short", "short_answer"} |-> "short_answer"]

\* the question_types start_generation computes from the form field
StartTypes(selected_type) ==
    IF selected_type = "" THEN AllTypes
    ELSE IF Contains(",", selected_type) THEN StripLowerAll(SplitChar(selected_type, ","))
    ELSE << Lower(Strip(selected_type)) >>

StartMapped(st) ==
    Materialize([i \in 1..Len(st) |-> IF st[i] \in DOMAIN start_type_map THEN start_type_map[st[i]] ELSE st[i]])

\* the texts a client pastes
WebTexts == {"", DocTooShort, DocFragments, DocBiology}

\* the pasted texts from which the synthesizers produce at least one question
GenerableTexts ==
    {t \in WebTexts :
        /\ Len(Strip(t)) >= MinChars
        /\ AllTypesPass(preprocess_text(t, UnsetEnv, SumyOk).sentences, [rng |-> 0, cache |-> {}]).items # <<>>}

\* gen_in is session_data, gen_out the generation threads in the order they
\* were started, log the last response to /status; loc keeps, computed once,
\* the texts from which questions can be generated
InitWeb ==
    /\ pc = "web"
    /\ env = UnsetEnv
    /\ sumy = SumyOk
    /\ files = NoFiles
    /\ g = [rng |-> 0, cache |-> {}]
    /\ loc = [generable |-> GenerableTexts]
    /\ error = NoneStr
    /\ log = [ready |-> FALSE]
    /\ runs = <<>>
    /\ gen_in = <<>>
    /\ gen_fn = "none"
    /\ gen_out = <<>>

\* prepare() with input_mode "text"
prepare ==
    /\ pc = "web"
    /\ \E text_content \in WebTexts :
         IF Strip(text_content) = ""
         THEN UNCHANGED <<files, gen_in>>
         ELSE /\ files' = [files EXCEPT !.pasted = Strip(text_content), !.pdf = NoneStr]
              /\ gen_in' = <<>>
    /\ gen_fn' = "prepare"
    /\ UNCHANGED <<pc, env, sumy, g, loc, error, log, runs, gen_out>>

\* start_generation(): the settings go to session_data and a thread is started
start_generation ==
    /\ pc = "web"
    /\ Len(gen_out) < MaxThreads
    /\ \E selected_type \in {"", "mcq", "TF, short"}, difficulty \in {"medium", "extreme"},
          num_questions \in {3, 10, 80} :
         \E question_types \in {StartMapped(StartTypes(selected_type))} :
            /\ gen_in' = [question_types |-> question_types,
                          difficulty |-> IF difficulty \in {"easy", "medium", "hard"} THEN difficulty ELSE "medium",
                          num_questions |-> Max2(5, Min2(50, num_questions))]
            /\ gen_out' = Append(gen_out, [at |-> "started", question_types |-> question_types,
                                           text |-> NoneStr, error |-> NoneStr])
    /\ gen_fn' = "start_generation"
    /\ UNCHANGED <<pc, env, sumy, files, g, loc, error, log, runs>>

\* _run_generation_pipeline up to the length test: the stored text is read
ThreadExtract ==
    /\ pc = "web"
    /\ \E t \in 1..Len(gen_out) :
         /\ gen_out[t].at = "started"
         /\ gen_out' = [gen_out EXCEPT ![t] =
                IF files.pasted = NoneStr THEN [@ EXCEPT !.at = "failed", !.error = ErrNoValidInput]
                ELSE IF Len(Strip(files.pasted)) < MinChars
                     THEN [@ EXCEPT !.at = "failed", !.text = Strip(files.pasted), !.error = ErrTextTooShort]
                     ELSE [@ EXCEPT !.at = "extracted", !.text = Strip(files.pasted)]]
    /\ gen_fn' = "_run_generation_pipeline"
    /\ UNCHANGED <<pc, env, sumy, files, g, loc, error, log, runs, gen_in>>

\* the rest of _run_generation_pipeline: the generator is looked up in the
\* module imported as question_generator, the questions are generated and
\* Generated_Quiz.pdf is written; any exception ends the thread
ThreadGenerate ==
    /\ pc = "web"
    /\ \E t \in 1..Len(gen_out) :
         /\ gen_out[t].at = "extracted"
         /\ IF "QuestionGenerator" \notin question_generator
            THEN /\ gen_out' = [gen_out EXCEPT ![t] = [@ EXCEPT !.at = "failed", !.error = ErrNoAttribute]]
                 /\ UNCHANGED <<files, gen_in>>
            ELSE \E questions \in {<<>>, <<"question">>} :
                   IF questions = <<>>
                   THEN /\ gen_out' = [gen_out EXCEPT ![t] = [@ EXCEPT !.at = "failed", !.error = ErrNoQuestions]]
                        /\ UNCHANGED <<files, gen_in>>
                   ELSE /\ gen_out' = [gen_out EXCEPT ![t] = [@ EXCEPT !.at = "done"]]
                        /\ files' = [files EXCEPT !.pdf = questions]
                        /\ gen_in' = [form_id |-> "form", form_link |-> "/form/form", questions |-> questions] @@ gen_in
    /\ gen_fn' = "_run_generation_pipeline"
    /\ UNCHANGED <<pc, env, sumy, g, loc, error, log, runs>>

\* os.path.exists("Generated_Quiz.pdf")
Ready == files.pdf # NoneStr

\* status()
status ==
    /\ pc = "web"
    /\ log' = [ready |-> Ready]
    /\ gen_fn' = "status"
    /\ UNCHANGED <<pc, env, sumy, files, g, loc, error, runs, gen_in, gen_out>>

NextWeb ==
    \/ prepare
    \/ start_generation
    \/ ThreadExtract
    \/ ThreadGenerate
    \/ status

\* a started thread runs to its end and the client goes on polling /status
SpecWeb ==
    /\ InitWeb
    /\ [][NextWeb]_vars
    /\ WF_vars(ThreadExtract)
    /\ WF_vars(ThreadGenerate)
    /\ WF_vars(status)

\* a generation thread has read a stored text of 50 characters or more from
\* which questions can be generated
GoodTextRead ==
    \E t \in 1..Len(gen_out) : gen_out[t].at = "extracted" /\ gen_out[t].text \in loc.generable

\* C29: after /start on a stored text of 50 characters or more from which
\* questions can be generated, the generation thread eventually writes
\* Generated_Quiz.pdf and /status eventually answers ready = true
C29_StartLeadsToReady == GoodTextRead ~> Ready


(***************************************************************************)
(* app.py: AuthDB's sessions file under concurrent request handlers        *)
(***************************************************************************)
\* the number of create_session and delete_session calls
MaxRequests == 3

\* sessions.json after _init: json.dump({}, f)
EmptySessions == [complete |-> TRUE, tokens |-> {}]

\* files.sessions is sessions.json: the tokens it holds, complete = FALSE
\* while a writer has opened it with 'w' and not yet dumped; runs is the
\* calls of create_session and delete_session, each with its local sessions
\* dict; log keeps the tokens create_session returned (issued), those
\* delete_session was called for (called) and returned for (deleted);
\* gen_out is the last call of verify_session
InitAuth ==
    /\ pc = "auth"
    /\ env = UnsetEnv
    /\ sumy = SumyOk
    /\ files = [sessions |-> EmptySessions]
    /\ g = [rng |-> 0, cache |-> {}]
    /\ loc = EmptyLoc
    /\ error = NoneStr
    /\ log = [issued |-> {}, called |-> {}, deleted |-> {}]
    /\ runs = <<>>
    /\ gen_in = <<>>
    /\ gen_fn = "none"
    /\ gen_out = <<>>

\* api_signup or api_login reaches auth_db.create_session: secrets.token_urlsafe
\* gives a token no other call gives
create_session ==
    /\ pc = "auth"
    /\ Len(runs) < MaxRequests
    /\ runs' = Append(runs, [fn |-> "create_session", token |-> Len(runs) + 1, at |-> "load", sessions |-> {}])
    /\ gen_fn' = "create_session"
    /\ UNCHANGED <<pc, env, sumy, files, g, loc, error, log, gen_in, gen_out>>

\* logout reaches auth_db.delete_session with the token of the client's cookie
delete_session ==
    /\ pc = "auth"
    /\ Len(runs) < MaxRequests
    /\ \E token \in log.issued \ log.called :
         /\ runs' = Append(runs, [fn |-> "delete_session", token |-> token, at |-> "load", sessions |-> {}])
         /\ log' = [log EXCEPT !.called = @ \cup {token}]
    /\ gen_fn' = "delete_session"
    /\ UNCHANGED <<pc, env, sumy, files, g, loc, error, gen_in, gen_out>>

\* what a call has to do after sessions = self._load_sessions()
AfterLoad(call, sessions) ==
    IF call.fn = "create_session" THEN [call EXCEPT !.at = "open", !.sessions = sessions \cup {call.token}]
    ELSE IF call.token \in sessions THEN [call EXCEPT !.at = "open", !.sessions = sessions \ {call.token}]
    ELSE [call EXCEPT !.at = "done", !.sessions = sessions]

\* the tokens delete_session has returned for once call r is at its end
Deleted(deleted, call) ==
    IF call.fn = "delete_session" /\ call.at = "done" THEN deleted \cup {call.token} ELSE deleted

\* _load_sessions in create_session and delete_session: json.load raises on
\* a file another handler has truncated and not yet written
LoadSessions ==
    /\ pc = "auth"
    /\ \E r \in 1..Len(runs) :
         /\ runs[r].at = "load"
         /\ \E call \in {IF files.sessions.complete THEN AfterLoad(runs[r], files.sessions.tokens)
                         ELSE [runs[r] EXCEPT !.at = "raised"]} :
              /\ runs' = [runs EXCEPT ![r] = call]
              /\ log' = [log EXCEPT !.deleted = Deleted(@, call)]
    /\ gen_fn' = "_load_sessions"
    /\ UNCHANGED <<pc, env, sumy, files, g, loc, error, gen_in, gen_out>>

\* _save_sessions: open(self.sessions_file, 'w') truncates the file
SaveOpen ==
    /\ pc = "auth"
    /\ \E r \in 1..Len(runs) :
         /\ runs[r].at = "open"
         /\ runs' = [runs EXCEPT ![r] = [@ EXCEPT !.at = "dump"]]
    /\ files' = [files EXCEPT !.sessions = [complete |-> FALSE, tokens |-> {}]]
    /\ gen_fn' = "_save_sessions"
    /\ UNCHANGED <<pc, env, sumy, g, loc, error, log, gen_in, gen_out>>

\* _save_sessions: json.dump(sessions, f), after which the call returns
SaveDump ==
    /\ pc = "auth"
    /\ \E r \in 1..Len(runs) :
         /\ runs[r].at = "dump"
         /\ \E call \in {[runs[r] EXCEPT !.at = "done"]} :
              /\ runs' = [runs EXCEPT ![r] = call]
              /\ files' = [files EXCEPT !.sessions = [complete |-> TRUE, tokens |-> call.sessions]]
              /\ log' = [log EXCEPT !.issued = IF call.fn = "create_session" THEN @ \cup {call.token} ELSE @,
                                    !.deleted = Deleted(@, call)]
    /\ gen_fn' = "_save_sessions"
    /\ UNCHANGED <<pc, env, sumy, g, loc, error, gen_in, gen_out>>

\* login_required reaches auth_db.verify_session with a token create_session
\* returned: the answer, with what had happened to the token by then
verify_session ==
    /\ pc = "auth"
    /\ \E token \in log.issued :
         gen_out' = [token |-> token,
                     answer |-> IF ~files.sessions.complete THEN "raised"
                                ELSE IF token \in files.sessions.tokens THEN "accepted" ELSE "rejected",
                     called |-> token \in log.called,
                     deleted |-> token \in log.deleted]
    /\ gen_fn' = "verify_session"
    /\ UNCHANGED <<pc, env, sumy, files, g, loc, error, log, runs, gen_in>>

NextAuth ==
    \/ create_session
    \/ delete_session
    \/ LoadSessions
    \/ SaveOpen
    \/ SaveDump
    \/ verify_session

SpecAuth == InitAuth /\ [][NextAuth]_vars

\* C30: a token create_session returned is accepted by verify_session as long
\* as delete_session has not been called for it, and rejected once
\* delete_session has returned for it, whatever the interleaving of the
\* handlers of signup, login and logout
C30_SessionValidUntilDeleted ==
    gen_fn = "verify_session" =>
        /\ ~gen_out.called => gen_out.answer = "accepted"
        /\ gen_out.deleted => gen_out.answer = "rejected"

====
